---------------------------- MODULE Spec2Model ----------------------------
(***************************************************************************)
(* State-machine model of the FLV demuxer core of gst-plugin-flv           *)
(* (src/gst-plugin-flv/src/flvdemux.rs).                                   *)
(*                                                                         *)
(* The demuxer object is the record of its fields (state, the Skipping     *)
(* payload, the adapter's bytes, the optional streaming state).  Every     *)
(* handler is an operator from that record to the record after the call    *)
(* and the HandleBufferResult it returns.  The adapter holds real bytes    *)
(* (0..255); the tag, data-header and packet-header parsers decode them    *)
(* bit for bit as the FLV wire format lays them out.                       *)
(*                                                                         *)
(* Option<T> is a sequence: <<>> is None, <<x>> is Some(x).                *)
(* u64 values are four base-2^16 limbs, most significant first, so that    *)
(* 32-bit millisecond timestamps and their nanosecond products are exact.  *)
(* A Rust panic (unwrap() on an adapter error, unimplemented!(), an        *)
(* arithmetic overflow) is the result kind "Panic"; nothing runs after it. *)
(***************************************************************************)
EXTENDS Integers, Sequences, FiniteSets, TLC

(***************************************************************************)
(* Option and small helpers                                                *)
(***************************************************************************)
None == <<>>

Some(x) == <<x>>

IsSome(o) == o /= <<>>

Unwrap(o) == o[1]

Max(a, b) == IF a >= b THEN a ELSE b

Min(a, b) == IF a <= b THEN a ELSE b

(***************************************************************************)
(* Fixed-width integers                                                    *)
(***************************************************************************)
LimbBase == 256 * 256

\* a u32 as <<high 16 bits, low 16 bits>>
U32(hi, lo) == <<hi, lo>>

U32OfInt(n) == <<n \div LimbBase, n % LimbBase>>

U32Lt(a, b) == a[1] < b[1] \/ (a[1] = b[1] /\ a[2] < b[2])

\* `x as u64` for a u32 x
U64OfU32(x) == <<0, 0, x[1], x[2]>>

U64Zero == <<0, 0, 0, 0>>

U64Lt(a, b) ==
    \E i \in 1..4 : a[i] < b[i] /\ \A j \in 1..(i - 1) : a[j] = b[j]

\* cmp::max on u64
U64Max(a, b) == IF U64Lt(a, b) THEN b ELSE a

\* x * k on u64 for a small k: the product's low 64 bits and whether the
\* true product needed more
U64MulSmall(x, k) ==
    LET p4 == x[4] * k
        p3 == (x[3] * k) + (p4 \div LimbBase)
        p2 == (x[2] * k) + (p3 \div LimbBase)
        p1 == (x[1] * k) + (p2 \div LimbBase)
    IN  [val |-> <<p1 % LimbBase, p2 % LimbBase, p3 % LimbBase, p4 % LimbBase>>,
         overflow |-> p1 \div LimbBase /= 0]

\* ((t as i64) + (c as i64)) as u64 for a u32 t and an i32 c of 24 bits:
\* the sum in two's complement, sign-extended to 64 bits
I64SumAsU64(t, c) ==
    LET s4 == t[2] + (c % LimbBase)
        s3 == t[1] + (c \div LimbBase) + (s4 \div LimbBase)
        s2 == s3 \div LimbBase
        s1 == s2 \div LimbBase
    IN  <<s1 % LimbBase, s2 % LimbBase, s3 % LimbBase, s4 % LimbBase>>

(***************************************************************************)
(* The byte adapter (gst_plugin::adapter::Adapter): a FIFO of bytes.       *)
(* peek_into, flush and get_buffer fail when asked for more than is        *)
(* available; the demuxer unwrap()s every result.                          *)
(***************************************************************************)
get_available(adapter) == Len(adapter)

CanRead(adapter, n) == n >= 0 /\ n <= Len(adapter)

peek_into(adapter, n) == SubSeq(adapter, 1, n)

flush(adapter, n) == SubSeq(adapter, n + 1, Len(adapter))

get_buffer(adapter, n) == SubSeq(adapter, 1, n)

push(adapter, buffer) == adapter \o buffer

(***************************************************************************)
(* Big-endian field readers (nom::be_u8 .. be_u32, be_i24)                 *)
(***************************************************************************)
be_u16(b, i) == (b[i] * 256) + b[i + 1]

be_u24(b, i) == (b[i] * 65536) + (b[i + 1] * 256) + b[i + 2]

be_i24(b, i) ==
    IF b[i] >= 128 THEN be_u24(b, i) - 16777216 ELSE be_u24(b, i)

\* the inputs of the model keep u32 header fields below 2^31
be_u32(b, i) == (be_u16(b, i) * LimbBase) + be_u16(b, i + 2)

(***************************************************************************)
(* The parsers of the flavors crate, as the FLV wire format defines them.  *)
(* Each returns None on a parse error and Some(record) otherwise.          *)
(***************************************************************************)
\* "FLV" version flags offset(u32be)
flavors_header(data) ==
    IF data[1] = 70 /\ data[2] = 76 /\ data[3] = 86
    THEN Some([version |-> data[4],
               audio   |-> (data[5] \div 4) % 2 = 1,
               video   |-> data[5] % 2 = 1,
               offset  |-> be_u32(data, 6)])
    ELSE None

TagTypeOf(b) ==
    CASE b = 8  -> Some("Audio")
      [] b = 9  -> Some("Video")
      [] b = 18 -> Some("Script")
      [] OTHER  -> None

\* type(u8) data_size(u24be) timestamp(u24be) timestamp_ext(u8) stream_id(u24be)
\* over the 11 bytes data[i .. i+10]
flavors_tag_header(data, i) ==
    IF TagTypeOf(data[i]) = None
    THEN None
    ELSE Some([tag_type  |-> Unwrap(TagTypeOf(data[i])),
               data_size |-> be_u24(data, i + 1),
               \* ((timestamp_extended as u32) << 24) + timestamp
               timestamp |-> U32((data[i + 7] * 256) + data[i + 4],
                                 be_u16(data, i + 5)),
               stream_id |-> be_u24(data, i + 8)])

SoundFormatOf(n) ==
    CASE n = 0  -> Some("PCM_NE")
      [] n = 1  -> Some("ADPCM")
      [] n = 2  -> Some("MP3")
      [] n = 3  -> Some("PCM_LE")
      [] n = 4  -> Some("NELLYMOSER_16KHZ_MONO")
      [] n = 5  -> Some("NELLYMOSER_8KHZ_MONO")
      [] n = 6  -> Some("NELLYMOSER")
      [] n = 7  -> Some("PCM_ALAW")
      [] n = 8  -> Some("PCM_ULAW")
      [] n = 10 -> Some("AAC")
      [] n = 11 -> Some("SPEEX")
      [] n = 14 -> Some("MP3_8KHZ")
      [] n = 15 -> Some("DEVICE_SPECIFIC")
      [] OTHER  -> None

SoundRateOf(n) ==
    CASE n = 0 -> "_5_5KHZ"
      [] n = 1 -> "_11KHZ"
      [] n = 2 -> "_22KHZ"
      [] n = 3 -> "_44KHZ"

\* format:4 | rate:2 | size:1 | type:1
flavors_audio_data_header(b) ==
    IF SoundFormatOf(b \div 16) = None
    THEN None
    ELSE Some([sound_format |-> Unwrap(SoundFormatOf(b \div 16)),
               sound_rate   |-> SoundRateOf((b \div 4) % 4),
               sound_size   |-> IF (b \div 2) % 2 = 1 THEN "Snd16bit" ELSE "Snd8bit",
               sound_type   |-> IF b % 2 = 1 THEN "SndStereo" ELSE "SndMono"])

FrameTypeOf(n) ==
    CASE n = 1 -> Some("Key")
      [] n = 2 -> Some("Inter")
      [] n = 3 -> Some("DisposableInter")
      [] n = 4 -> Some("Generated")
      [] n = 5 -> Some("Command")
      [] OTHER -> None

CodecIdOf(n) ==
    CASE n = 1 -> Some("JPEG")
      [] n = 2 -> Some("SORENSON_H263")
      [] n = 3 -> Some("SCREEN")
      [] n = 4 -> Some("VP6")
      [] n = 5 -> Some("VP6A")
      [] n = 6 -> Some("SCREEN2")
      [] n = 7 -> Some("H264")
      [] n = 8 -> Some("H263")
      [] n = 9 -> Some("MPEG4Part2")
      [] OTHER -> None

\* frame_type:4 | codec_id:4
flavors_video_data_header(b) ==
    IF FrameTypeOf(b \div 16) = None \/ CodecIdOf(b % 16) = None
    THEN None
    ELSE Some([frame_type |-> Unwrap(FrameTypeOf(b \div 16)),
               codec_id   |-> Unwrap(CodecIdOf(b % 16))])

\* one byte: 0 sequence header, 1 raw
flavors_aac_audio_packet_header(b) ==
    CASE b = 0 -> Some([packet_type |-> "SequenceHeader"])
      [] b = 1 -> Some([packet_type |-> "Raw"])
      [] OTHER -> None

\* packet type (u8), composition time (24-bit signed big-endian), over data[i .. i+3]
flavors_avc_video_packet_header(data, i) ==
    LET ty == CASE data[i] = 0 -> Some("SequenceHeader")
                [] data[i] = 1 -> Some("NALU")
                [] data[i] = 2 -> Some("EndOfSequence")
                [] OTHER       -> None
    IN  IF ty = None
        THEN None
        ELSE Some([packet_type      |-> Unwrap(ty),
                   composition_time |-> be_i24(data, i + 1)])

(***************************************************************************)
(* Script data.  The AMF0 decoder of the flavors crate is replaced by a    *)
(* table over one-byte payload codes: code -> the ScriptData it decodes    *)
(* to.  A payload with another first byte is a parse error, an empty       *)
(* payload is incomplete; both are None here.  Numbers are the f64 values  *)
(* of small non-negative integers.                                         *)
(***************************************************************************)
Num(name, v) == [name |-> name, kind |-> "Number", val |-> v]

ScriptTable(code) ==
    CASE code = 1 -> Some([name |-> "onMetaData", kind |-> "Object",
                           arguments |-> << Num("audiodatarate", 128) >>])
      [] code = 2 -> Some([name |-> "onMetaData", kind |-> "ECMAArray",
                           arguments |-> << Num("videodatarate", 256),
                                            Num("width", 320), Num("height", 240),
                                            Num("AspectRatioX", 4) >>])
      [] code = 3 -> Some([name |-> "onMetaData", kind |-> "Object",
                           arguments |-> << Num("duration", 2), Num("framerate", 25),
                                            Num("AspectRatioX", 4),
                                            Num("AspectRatioY", 3) >>])
      [] code = 4 -> Some([name |-> "onCuePoint", kind |-> "Object",
                           arguments |-> << Num("audiodatarate", 64) >>])
      [] code = 5 -> Some([name |-> "onMetaData", kind |-> "Number",
                           arguments |-> << >>])
      [] code = 6 -> Some([name |-> "onMetaData", kind |-> "Object",
                           arguments |-> << Num("AspectRatioX", 0),
                                            Num("AspectRatioY", 3),
                                            [name |-> "title", kind |-> "String",
                                             val |-> "t"] >>])
      [] OTHER    -> None

flavors_script_data(data) ==
    IF Len(data) = 0 THEN None ELSE ScriptTable(data[1])

\* utils::f64_to_fraction on an integral value
f64_to_fraction(x) == Some(<<x, 1>>)

\* (secs * 1000.0 * 1000.0 * 1000.0) as u64
DurationNs(secs) ==
    U64MulSmall(U64MulSmall(U64MulSmall(U64OfU32(U32OfInt(secs)), 1000).val,
                            1000).val, 1000).val

EmptyMetadata ==
    [duration |-> None, creation_date |-> None, creator |-> None,
     title |-> None, metadata_creator |-> None, audio_bitrate |-> None,
     video_width |-> None, video_height |-> None,
     video_pixel_aspect_ratio |-> None, video_framerate |-> None,
     video_bitrate |-> None]

\* one iteration of the loop over the arguments; par is <<par_n, par_d>>
MetadataArg(acc, arg) ==
    LET m == acc.metadata
        n == arg.name
        isNum == arg.kind = "Number"
        isStr == arg.kind = "String"
    IN  CASE n = "duration" /\ isNum ->
               [acc EXCEPT !.metadata.duration = Some(DurationNs(arg.val))]
          [] n = "creationdate" /\ isStr ->
               [acc EXCEPT !.metadata.creation_date = Some(arg.val)]
          [] n = "creator" /\ isStr ->
               [acc EXCEPT !.metadata.creator = Some(arg.val)]
          [] n = "title" /\ isStr ->
               [acc EXCEPT !.metadata.title = Some(arg.val)]
          [] n = "metadatacreator" /\ isStr ->
               [acc EXCEPT !.metadata.metadata_creator = Some(arg.val)]
          [] n = "audiodatarate" /\ isNum ->
               [acc EXCEPT !.metadata.audio_bitrate = Some(arg.val * 1024)]
          [] n = "width" /\ isNum ->
               [acc EXCEPT !.metadata.video_width = Some(arg.val)]
          [] n = "height" /\ isNum ->
               [acc EXCEPT !.metadata.video_height = Some(arg.val)]
          [] n = "framerate" /\ isNum /\ arg.val >= 0 ->
               IF IsSome(f64_to_fraction(arg.val))
               THEN [acc EXCEPT !.metadata.video_framerate =
                                    Some(Unwrap(f64_to_fraction(arg.val)))]
               ELSE acc
          [] n = "AspectRatioX" /\ isNum ->
               [acc EXCEPT !.par_n = Some(arg.val)]
          [] n = "AspectRatioY" /\ isNum ->
               [acc EXCEPT !.par_d = Some(arg.val)]
          [] n = "videodatarate" /\ isNum ->
               [acc EXCEPT !.metadata.video_bitrate = Some(arg.val * 1024)]
          [] OTHER -> acc

RECURSIVE MetadataLoop(_, _, _)
MetadataLoop(acc, args, i) ==
    IF i > Len(args) THEN acc
    ELSE MetadataLoop(MetadataArg(acc, args[i]), args, i + 1)

\* a variant of Metadata::new that takes a lone AspectRatioX or AspectRatioY
\* for a ratio to 1; ParGating has to tell it from the code
Metadata_new_either_key(sd) ==
    IF sd.kind \notin {"Object", "ECMAArray"}
    THEN EmptyMetadata
    ELSE LET acc == MetadataLoop([metadata |-> EmptyMetadata,
                                  par_n |-> None, par_d |-> None],
                                 sd.arguments, 1)
         IN  IF IsSome(acc.par_n) \/ IsSome(acc.par_d)
             THEN [acc.metadata EXCEPT !.video_pixel_aspect_ratio =
                       Some(<<IF IsSome(acc.par_n) THEN Unwrap(acc.par_n) ELSE 1,
                              IF IsSome(acc.par_d) THEN Unwrap(acc.par_d) ELSE 1>>)]
             ELSE acc.metadata

Metadata_new(sd) ==
    IF sd.kind \notin {"Object", "ECMAArray"}
    THEN EmptyMetadata
    ELSE LET acc == MetadataLoop([metadata |-> EmptyMetadata,
                                  par_n |-> None, par_d |-> None],
                                 sd.arguments, 1)
         IN  IF IsSome(acc.par_n) /\ IsSome(acc.par_d)
             THEN [acc.metadata EXCEPT !.video_pixel_aspect_ratio =
                       Some(<<Unwrap(acc.par_n), Unwrap(acc.par_d)>>)]
             ELSE acc.metadata

\* metadata.as_ref().and_then(|m| m.field)
MetaField(metadata, f) == IF IsSome(metadata) THEN Unwrap(metadata)[f] ELSE None

(***************************************************************************)
(* Caps: a media type and an ordered list of <<field, value>> pairs.       *)
(***************************************************************************)
Caps_new_simple(name, fields) == [name |-> name, fields |-> fields]

\* caps.as_mut().map(|c| c.set_simple(fields)) on an Option<Caps>
set_simple(caps, fields) ==
    IF IsSome(caps)
    THEN Some([Unwrap(caps) EXCEPT !.fields = @ \o fields])
    ELSE None

CapsHas(caps, key) == \E i \in 1..Len(caps.fields) : caps.fields[i][1] = key

CapsGet(caps, key) ==
    caps.fields[CHOOSE i \in 1..Len(caps.fields) : caps.fields[i][1] = key][2]

(***************************************************************************)
(* AudioFormat                                                             *)
(***************************************************************************)
NumericRate(sound_format, sound_rate) ==
    CASE sound_format = "NELLYMOSER_16KHZ_MONO" -> 16000
      [] sound_format = "NELLYMOSER_8KHZ_MONO"  -> 8000
      [] sound_format = "MP3_8KHZ"              -> 8000
      [] sound_format = "SPEEX"                 -> 16000
      [] OTHER -> CASE sound_rate = "_5_5KHZ" -> 5512
                    [] sound_rate = "_11KHZ"  -> 11025
                    [] sound_rate = "_22KHZ"  -> 22050
                    [] sound_rate = "_44KHZ"  -> 44100

AudioFormat_new(data_header, metadata, aac_sequence_header) ==
    [format   |-> data_header.sound_format,
     rate     |-> NumericRate(data_header.sound_format, data_header.sound_rate),
     width    |-> IF data_header.sound_size = "Snd8bit" THEN 8 ELSE 16,
     channels |-> IF data_header.sound_type = "SndMono" THEN 1 ELSE 2,
     bitrate  |-> MetaField(metadata, "audio_bitrate"),
     aac_sequence_header |-> aac_sequence_header]

\* impl PartialEq for AudioFormat: ignores bitrate
AudioFormat_eq(a, b) ==
    /\ a.format = b.format
    /\ a.rate = b.rate
    /\ a.width = b.width
    /\ a.channels = b.channels
    /\ a.aac_sequence_header = b.aac_sequence_header

\* Option<AudioFormat> == Option<AudioFormat>
OptAudioEq(x, y) ==
    IF IsSome(x) /\ IsSome(y) THEN AudioFormat_eq(Unwrap(x), Unwrap(y))
    ELSE IsSome(x) = IsSome(y)

\* a variant of update_with_metadata that stores the bitrate and reports no
\* change; BitrateOnlyChanges has to tell it from the code
AudioFormat_update_with_metadata_quiet(a, metadata) ==
    <<[a EXCEPT !.bitrate = metadata.audio_bitrate], FALSE>>

\* returns <<the format after the update, changed>>
AudioFormat_update_with_metadata(a, metadata) ==
    IF a.bitrate /= metadata.audio_bitrate
    THEN <<[a EXCEPT !.bitrate = metadata.audio_bitrate], TRUE>>
    ELSE <<a, FALSE>>

AudioBaseCaps(a) ==
    CASE a.format \in {"MP3", "MP3_8KHZ"} ->
           Some(Caps_new_simple("audio/mpeg",
                                << <<"mpegversion", 1>>, <<"layer", 3>> >>))
      [] a.format \in {"PCM_NE", "PCM_LE"} ->
           IF a.rate /= 0 /\ a.channels /= 0
           THEN Some(Caps_new_simple("audio/x-raw",
                       << <<"layout", "interleaved">>,
                          <<"format", IF a.width = 8 THEN "U8" ELSE "S16LE">> >>))
           ELSE None
      [] a.format = "ADPCM" ->
           Some(Caps_new_simple("audio/x-adpcm", << <<"layout", "swf">> >>))
      [] a.format \in {"NELLYMOSER_16KHZ_MONO", "NELLYMOSER_8KHZ_MONO",
                       "NELLYMOSER"} ->
           Some(Caps_new_simple("audio/x-nellymoser", << >>))
      [] a.format = "PCM_ALAW" -> Some(Caps_new_simple("audio/x-alaw", << >>))
      [] a.format = "PCM_ULAW" -> Some(Caps_new_simple("audio/x-mulaw", << >>))
      [] a.format = "AAC" ->
           IF IsSome(a.aac_sequence_header)
           THEN Some(Caps_new_simple("audio/mpeg",
                       << <<"mpegversion", 4>>, <<"framed", TRUE>>,
                          <<"stream-format", "raw">>,
                          <<"codec_data", Unwrap(a.aac_sequence_header)>> >>))
           ELSE None
      [] a.format = "SPEEX" -> None
      [] a.format = "DEVICE_SPECIFIC" -> None

\* a variant of to_caps that describes an AAC stream whether or not the
\* sequence header is there; SetupBeforeAnnouncement has to tell it from the code
AudioFormat_to_caps_without_setup(a) ==
    LET c0 == IF a.format = "AAC" /\ a.aac_sequence_header = None
              THEN Some(Caps_new_simple("audio/mpeg",
                          << <<"mpegversion", 4>>, <<"framed", TRUE>>,
                             <<"stream-format", "raw">> >>))
              ELSE AudioBaseCaps(a)
        c1 == IF a.rate /= 0 THEN set_simple(c0, << <<"rate", a.rate>> >>) ELSE c0
    IN  IF a.channels /= 0
        THEN set_simple(c1, << <<"channels", a.channels>> >>)
        ELSE c1

AudioFormat_to_caps(a) ==
    LET c0 == AudioBaseCaps(a)
        c1 == IF a.rate /= 0 THEN set_simple(c0, << <<"rate", a.rate>> >>) ELSE c0
    IN  IF a.channels /= 0
        THEN set_simple(c1, << <<"channels", a.channels>> >>)
        ELSE c1

(***************************************************************************)
(* VideoFormat                                                             *)
(***************************************************************************)
VideoFormat_new(data_header, metadata, avc_sequence_header) ==
    [format             |-> data_header.codec_id,
     width              |-> MetaField(metadata, "video_width"),
     height             |-> MetaField(metadata, "video_height"),
     pixel_aspect_ratio |-> MetaField(metadata, "video_pixel_aspect_ratio"),
     framerate          |-> MetaField(metadata, "video_framerate"),
     bitrate            |-> MetaField(metadata, "video_bitrate"),
     avc_sequence_header |-> avc_sequence_header]

\* impl PartialEq for VideoFormat: ignores bitrate
VideoFormat_eq(a, b) ==
    /\ a.format = b.format
    /\ a.width = b.width
    /\ a.height = b.height
    /\ a.pixel_aspect_ratio = b.pixel_aspect_ratio
    /\ a.framerate = b.framerate
    /\ a.avc_sequence_header = b.avc_sequence_header

OptVideoEq(x, y) ==
    IF IsSome(x) /\ IsSome(y) THEN VideoFormat_eq(Unwrap(x), Unwrap(y))
    ELSE IsSome(x) = IsSome(y)

\* a variant of update_with_metadata that reports a changed width and keeps
\* the old one; MetadataMerge has to tell it from the code
VideoFormat_update_with_metadata_keeping_width(v, metadata) ==
    LET changed == \/ v.width /= metadata.video_width
                   \/ v.height /= metadata.video_height
                   \/ v.pixel_aspect_ratio /= metadata.video_pixel_aspect_ratio
                   \/ v.framerate /= metadata.video_framerate
                   \/ v.bitrate /= metadata.video_bitrate
    IN  << [v EXCEPT !.height = metadata.video_height,
                     !.pixel_aspect_ratio = metadata.video_pixel_aspect_ratio,
                     !.framerate = metadata.video_framerate,
                     !.bitrate = metadata.video_bitrate],
           changed >>

\* returns <<the format after the update, changed>>
VideoFormat_update_with_metadata(v, metadata) ==
    LET changed == \/ v.width /= metadata.video_width
                   \/ v.height /= metadata.video_height
                   \/ v.pixel_aspect_ratio /= metadata.video_pixel_aspect_ratio
                   \/ v.framerate /= metadata.video_framerate
                   \/ v.bitrate /= metadata.video_bitrate
    IN  << [v EXCEPT !.width = metadata.video_width,
                     !.height = metadata.video_height,
                     !.pixel_aspect_ratio = metadata.video_pixel_aspect_ratio,
                     !.framerate = metadata.video_framerate,
                     !.bitrate = metadata.video_bitrate],
           changed >>

\* a variant of the caps table that describes JPEG as well;
\* AnomaliesAbsorbedAfterReconcile has to tell it from the code
VideoBaseCaps_with_jpeg(v) ==
    IF v.format = "H264" /\ v.avc_sequence_header = None
    THEN None
    ELSE Some(Caps_new_simple("video/x-any", << <<"format", v.format>> >>))

VideoBaseCaps(v) ==
    CASE v.format = "SORENSON_H263" ->
           Some(Caps_new_simple("video/x-flash-video", << <<"flvversion", 1>> >>))
      [] v.format = "SCREEN"  -> Some(Caps_new_simple("video/x-flash-screen", << >>))
      [] v.format = "VP6"     -> Some(Caps_new_simple("video/x-vp6-flash", << >>))
      [] v.format = "VP6A"    -> Some(Caps_new_simple("video/x-vp6-flash-alpha", << >>))
      [] v.format = "SCREEN2" -> Some(Caps_new_simple("video/x-flash-screen2", << >>))
      [] v.format = "H264" ->
           IF IsSome(v.avc_sequence_header)
           THEN Some(Caps_new_simple("video/x-h264",
                       << <<"stream-format", "avc">>,
                          <<"codec_data", Unwrap(v.avc_sequence_header)>> >>))
           ELSE None
      [] v.format = "H263" -> Some(Caps_new_simple("video/x-h263", << >>))
      [] v.format = "MPEG4Part2" ->
           Some(Caps_new_simple("video/x-h263",
                                << <<"mpegversion", 4>>, <<"systemstream", FALSE>> >>))
      [] v.format = "JPEG" -> None

VideoFormat_to_caps(v) ==
    LET c0 == VideoBaseCaps(v)
        c1 == IF IsSome(v.width) /\ IsSome(v.height)
              THEN set_simple(c0, << <<"width", Unwrap(v.width)>>,
                                     <<"height", Unwrap(v.height)>> >>)
              ELSE c0
        c2 == IF IsSome(v.pixel_aspect_ratio)
                 /\ Unwrap(v.pixel_aspect_ratio)[1] /= 0
                 /\ Unwrap(v.pixel_aspect_ratio)[2] /= 0
              THEN set_simple(c1, << <<"pixel-aspect-ratio",
                                       Unwrap(v.pixel_aspect_ratio)>> >>)
              ELSE c1
    IN  IF IsSome(v.framerate) /\ Unwrap(v.framerate)[2] /= 0
        THEN set_simple(c2, << <<"framerate", Unwrap(v.framerate)>> >>)
        ELSE c2

(***************************************************************************)
(* StreamingState, streams, buffers and results                            *)
(***************************************************************************)
AUDIO_STREAM_ID == 0

VIDEO_STREAM_ID == 1

StreamingState_new(audio, video) ==
    [audio |-> None, expect_audio |-> audio,
     video |-> None, expect_video |-> video,
     got_all_streams |-> FALSE,
     last_position |-> None,
     metadata |-> None,
     aac_sequence_header |-> None,
     avc_sequence_header |-> None]

Stream_new(id, caps, name) == [id |-> id, caps |-> caps, stream_id |-> name]

\* a Buffer: its bytes, timestamps and flags
Buffer_new(data) == [data |-> data, pts |-> None, dts |-> None, flags |-> {}]

BUFFER_FLAG_DELTA_UNIT == "DELTA_UNIT"

\* HandleBufferResult, one shape for every variant
Result(kind) == [kind |-> kind, streams |-> << >>, id |-> -1, buffer |-> None]

NeedMoreData == Result("NeedMoreData")

Again == Result("Again")

HaveAllStreams == Result("HaveAllStreams")

StreamAdded(stream) == [Result("StreamAdded") EXCEPT !.streams = <<stream>>]

StreamChanged(stream) == [Result("StreamChanged") EXCEPT !.streams = <<stream>>]

StreamsChanged(streams) == [Result("StreamsChanged") EXCEPT !.streams = streams]

BufferForStream(id, buffer) ==
    [Result("BufferForStream") EXCEPT !.id = id, !.buffer = Some(buffer)]

\* a panic: the call never returns
Panic == Result("Panic")

\* no call made yet
NoResult == Result("None")

\* what a handler hands back: the demuxer after the call and the result;
\* a panicking call leaves the demuxer as it was found
Ret(d, res) == [d |-> d, res |-> res]

\* (ms as u64) * 1000 * 1000, with the overflow of either product
NsOfMs(ms) ==
    LET a == U64MulSmall(ms, 1000)
        b == U64MulSmall(a.val, 1000)
    IN  [val |-> b.val, overflow |-> a.overflow \/ b.overflow]

(***************************************************************************)
(* FlvDemux: [state, skipping, adapter, streaming_state].  skipping is the *)
(* payload of State::Skipping {audio, video, skip_left} and NoSkipping in  *)
(* every other state.                                                      *)
(***************************************************************************)
NoSkipping == [audio |-> FALSE, video |-> FALSE, skip_left |-> 0]

FlvDemux_new ==
    [state |-> "Stopped", skipping |-> NoSkipping, adapter |-> << >>,
     streaming_state |-> None]

\* self.streaming_state.as_mut().unwrap()
SS(d) == Unwrap(d.streaming_state)

WithSS(d, ss) == [d EXCEPT !.streaming_state = Some(ss)]

WithAdapter(d, adapter) == [d EXCEPT !.adapter = adapter]

\* lines 500-535: au and vu are what update_with_metadata returned for
\* the published audio and video formats
ScriptUpdated(d2, metadata, au, vu) ==
    LET ss  == SS(d2)
        ss2 == [ss EXCEPT
                  !.audio = IF IsSome(ss.audio) THEN Some(au[1]) ELSE None,
                  !.video = IF IsSome(ss.video) THEN Some(vu[1]) ELSE None,
                  !.metadata = Some(metadata)]
        audio_changed == au[2]
        video_changed == vu[2]
        streams ==
            (IF audio_changed /\ IsSome(ss.audio)
                /\ IsSome(AudioFormat_to_caps(au[1]))
             THEN << Stream_new(AUDIO_STREAM_ID,
                                Unwrap(AudioFormat_to_caps(au[1])), "audio") >>
             ELSE << >>)
            \o
            (IF video_changed /\ IsSome(ss.video)
                /\ IsSome(VideoFormat_to_caps(vu[1]))
             THEN << Stream_new(VIDEO_STREAM_ID,
                                Unwrap(VideoFormat_to_caps(vu[1])), "video") >>
             ELSE << >>)
    IN  IF audio_changed \/ video_changed
        THEN Ret(WithSS(d2, ss2), StreamsChanged(streams))
        ELSE Ret(WithSS(d2, ss2), Again)

\* lines 497-500: the metadata of an onMetaData record
ScriptMetadata(d2, metadata) ==
    ScriptUpdated(d2, metadata,
        IF IsSome(SS(d2).audio)
        THEN AudioFormat_update_with_metadata(Unwrap(SS(d2).audio), metadata)
        ELSE << None, FALSE >>,
        IF IsSome(SS(d2).video)
        THEN VideoFormat_update_with_metadata(Unwrap(SS(d2).video), metadata)
        ELSE << None, FALSE >>)

\* lines 489-540: parsed is what flavors::script_data returned
ScriptParsed(d2, parsed) ==
    IF IsSome(parsed) /\ Unwrap(parsed).name = "onMetaData"
    THEN ScriptMetadata(d2, Metadata_new(Unwrap(parsed)))
    ELSE Ret(d2, Again)

\* a variant of handle_script_tag that takes every record for metadata;
\* ScriptErrorsIgnoredInWindow has to tell it from the code
handle_script_tag_any_name(d, tag_header) ==
    IF get_available(d.adapter) < 15 + tag_header.data_size
    THEN Ret(d, NeedMoreData)
    ELSE LET d2 == WithAdapter(d, flush(flush(d.adapter, 15), tag_header.data_size))
             parsed == flavors_script_data(get_buffer(flush(d.adapter, 15),
                                                      tag_header.data_size))
         IN  IF IsSome(parsed)
             THEN ScriptMetadata(d2, Metadata_new(Unwrap(parsed)))
             ELSE Ret(d2, Again)

handle_script_tag(d, tag_header) ==
    IF get_available(d.adapter) < 15 + tag_header.data_size
    THEN Ret(d, NeedMoreData)
    ELSE ScriptParsed(
             WithAdapter(d, flush(flush(d.adapter, 15), tag_header.data_size)),
             flavors_script_data(get_buffer(flush(d.adapter, 15),
                                            tag_header.data_size)))

\* a variant of AudioGotAll that waits for a video stream whether or not the
\* header advertised one; AnnouncementOrder has to tell it from the code
AudioGotAll_after_video(ss) ==
    /\ ~ss.got_all_streams
    /\ ss.audio /= None
    /\ ss.video /= None

\* the got_all_streams test of update_audio_stream
AudioGotAll(ss) ==
    /\ ~ss.got_all_streams
    /\ ss.audio /= None
    /\ ((ss.expect_video /\ ss.video /= None) \/ ~ss.expect_video)

\* a variant of update_audio_stream that keeps a new format it cannot
\* describe as the published one; PublishedHaveCaps has to tell it from
\* the code
update_audio_stream_keeping_undescribed(ss, data_header) ==
    LET new_audio_format == AudioFormat_new(data_header, ss.metadata,
                                            ss.aac_sequence_header)
        differs    == ~OptAudioEq(ss.audio, Some(new_audio_format))
        new_stream == ss.audio = None
        caps       == AudioFormat_to_caps(new_audio_format)
        ss1        == IF differs THEN [ss EXCEPT !.audio = Some(new_audio_format)]
                      ELSE ss
    IN  IF differs /\ IsSome(caps)
        THEN [ss  |-> [ss EXCEPT !.audio = Some(new_audio_format)],
              res |-> IF new_stream
                      THEN StreamAdded(Stream_new(AUDIO_STREAM_ID, Unwrap(caps), "audio"))
                      ELSE StreamChanged(Stream_new(AUDIO_STREAM_ID, Unwrap(caps), "audio"))]
        ELSE IF AudioGotAll(ss1)
        THEN [ss |-> [ss1 EXCEPT !.got_all_streams = TRUE], res |-> HaveAllStreams]
        ELSE [ss |-> ss1, res |-> Again]

\* returns [ss, res]
update_audio_stream(ss, data_header) ==
    LET new_audio_format == AudioFormat_new(data_header, ss.metadata,
                                            ss.aac_sequence_header)
        differs    == ~OptAudioEq(ss.audio, Some(new_audio_format))
        new_stream == ss.audio = None
        caps       == AudioFormat_to_caps(new_audio_format)
        ss1        == IF differs THEN [ss EXCEPT !.audio = None] ELSE ss
    IN  IF differs /\ IsSome(caps)
        THEN [ss  |-> [ss EXCEPT !.audio = Some(new_audio_format)],
              res |-> IF new_stream
                      THEN StreamAdded(Stream_new(AUDIO_STREAM_ID, Unwrap(caps), "audio"))
                      ELSE StreamChanged(Stream_new(AUDIO_STREAM_ID, Unwrap(caps), "audio"))]
        ELSE IF AudioGotAll(ss1)
        THEN [ss |-> [ss1 EXCEPT !.got_all_streams = TRUE], res |-> HaveAllStreams]
        ELSE [ss |-> ss1, res |-> Again]

\* a variant of the audio payload code that takes the buffer from the bytes
\* behind the tag at the head when 17 or more are buffered there;
\* SequentialOutput has to tell it from the code
AudioPayload_next_tag(d, tag_header) ==
    IF SS(d).audio = None \/ tag_header.data_size < 2
    THEN Ret(WithAdapter(d, flush(d.adapter, tag_header.data_size + 15)), Again)
    ELSE LET rest == flush(d.adapter, 15 + tag_header.data_size)
         IN  Ret(WithAdapter(d, rest),
                 BufferForStream(AUDIO_STREAM_ID,
                    [Buffer_new(IF Len(rest) >= 17
                                THEN SubSeq(rest, 17, Len(rest))
                                ELSE SubSeq(d.adapter, 17, 15 + tag_header.data_size))
                     EXCEPT !.pts = Some(NsOfMs(U64OfU32(tag_header.timestamp)).val)]))

\* lines 640-679: the payload of an audio tag whose format is settled
AudioPayload(d, tag_header) ==
    LET ss == SS(d)
    IN  IF ss.audio = None
        THEN Ret(WithAdapter(d, flush(d.adapter, tag_header.data_size + 15)), Again)
        ELSE
          LET a1     == flush(d.adapter, 16)
              offset == IF Unwrap(ss.audio).format = "AAC" THEN 1 ELSE 0
              a2     == IF offset > 0 THEN flush(a1, offset) ELSE a1
              size   == tag_header.data_size - 1 - offset
              pts    == NsOfMs(U64OfU32(tag_header.timestamp))
          IN  IF ~CanRead(d.adapter, 16) THEN Ret(d, Panic)
              ELSE IF tag_header.data_size = 0 THEN Ret(WithAdapter(d, a1), Again)
              ELSE IF tag_header.data_size < offset
              THEN IF CanRead(a1, tag_header.data_size - 1)
                   THEN Ret(WithAdapter(d, flush(a1, tag_header.data_size - 1)), Again)
                   ELSE Ret(d, Panic)
              ELSE IF ~CanRead(a1, offset) THEN Ret(d, Panic)
              ELSE IF ~CanRead(a2, size) THEN Ret(d, Panic)
              ELSE IF pts.overflow THEN Ret(d, Panic)
              ELSE Ret(WithAdapter(d, flush(a2, size)),
                       BufferForStream(AUDIO_STREAM_ID,
                           [Buffer_new(get_buffer(a2, size)) EXCEPT
                               !.pts = Some(pts.val)]))

\* a panic inside the payload code leaves the demuxer as the call found it
OrPanic(d0, r) == IF r.res.kind = "Panic" THEN Ret(d0, Panic) ELSE r

\* lines 587-680; u is what update_audio_stream returned
AudioTagAfterUpdate(d0, tag_header, data_header, u) ==
    LET d == WithSS(d0, u.ss)
    IN  IF u.res.kind /= "Again" THEN Ret(d, u.res)
        ELSE IF get_available(d.adapter) < 15 + tag_header.data_size
        THEN Ret(d, NeedMoreData)
        ELSE IF data_header.sound_format = "AAC"
        THEN
          IF tag_header.data_size < 1 + 1
          THEN Ret(WithAdapter(d, flush(d.adapter, 15 + tag_header.data_size)), Again)
          ELSE IF ~CanRead(d.adapter, 17) THEN Ret(d0, Panic)
          ELSE
            LET hdr == flavors_aac_audio_packet_header(peek_into(d.adapter, 17)[17])
            IN  IF hdr = None THEN Ret(d0, Panic)   \* unimplemented!()
                ELSE IF Unwrap(hdr).packet_type = "SequenceHeader"
                THEN
                  LET a1 == flush(d.adapter, 15 + 1 + 1)
                      n  == tag_header.data_size - 1 - 1
                  IN  IF ~CanRead(a1, n) THEN Ret(d0, Panic)
                      ELSE Ret(WithSS(WithAdapter(d, flush(a1, n)),
                                      [SS(d) EXCEPT !.aac_sequence_header =
                                                        Some(get_buffer(a1, n))]),
                               Again)
                ELSE OrPanic(d0, AudioPayload(d, tag_header))
        ELSE OrPanic(d0, AudioPayload(d, tag_header))

\* a stream event that takes the 16-byte window with it
WindowFlushedOnEvent(r) ==
    IF r.res.kind \in {"StreamAdded", "StreamChanged", "HaveAllStreams"}
    THEN Ret(WithAdapter(r.d, flush(r.d.adapter, 16)), r.res)
    ELSE r

\* a variant of handle_audio_tag whose stream events consume the window;
\* EventsConsumeNothing has to tell it from the code
handle_audio_tag_flushing(d0, tag_header, data_header) ==
    WindowFlushedOnEvent(
        AudioTagAfterUpdate(d0, tag_header, data_header,
                            update_audio_stream(SS(d0), data_header)))

handle_audio_tag(d0, tag_header, data_header) ==
    AudioTagAfterUpdate(d0, tag_header, data_header,
                        update_audio_stream(SS(d0), data_header))

\* a variant of VideoGotAll that does not look at the audio stream; it is
\* what HaveAllStreamsComplete has to tell from the code
VideoGotAll_ignoring_audio(ss) ==
    /\ ~ss.got_all_streams
    /\ ss.video /= None

\* the got_all_streams test of update_video_stream
VideoGotAll(ss) ==
    /\ ~ss.got_all_streams
    /\ ss.video /= None
    /\ ((ss.expect_audio /\ ss.audio /= None) \/ ~ss.expect_audio)

\* returns [ss, res]
update_video_stream(ss, data_header) ==
    LET new_video_format == VideoFormat_new(data_header, ss.metadata,
                                            ss.avc_sequence_header)
        differs    == ~OptVideoEq(ss.video, Some(new_video_format))
        new_stream == ss.video = None
        caps       == VideoFormat_to_caps(new_video_format)
        ss1        == IF differs THEN [ss EXCEPT !.video = None] ELSE ss
    IN  IF differs /\ IsSome(caps)
        THEN [ss  |-> [ss EXCEPT !.video = Some(new_video_format)],
              res |-> IF new_stream
                      THEN StreamAdded(Stream_new(VIDEO_STREAM_ID, Unwrap(caps), "video"))
                      ELSE StreamChanged(Stream_new(VIDEO_STREAM_ID, Unwrap(caps), "video"))]
        ELSE IF VideoGotAll(ss1)
        THEN [ss |-> [ss1 EXCEPT !.got_all_streams = TRUE], res |-> HaveAllStreams]
        ELSE [ss |-> ss1, res |-> Again]

\* a variant of the presentation time without the "prevent negative numbers"
\* test; VideoTimestamps has to tell it from the code
VideoPtsMs_unclamped(timestamp, cts) == I64SumAsU64(timestamp, cts)

\* lines 829-833: the presentation time in ms, as u64 ("prevent negative numbers")
VideoPtsMs(timestamp, cts) ==
    IF cts < 0 /\ U32Lt(timestamp, U32OfInt(-cts))
    THEN U64Zero
    ELSE I64SumAsU64(timestamp, cts)

\* a variant of the payload offset that takes H.264's composition time for
\* two bytes; PayloadOffsetsWhereDefined has to tell it from the code
VideoOffset_short(format) ==
    CASE format \in {"VP6", "VP6A"} -> 1
      [] format = "H264"            -> 3
      [] OTHER                      -> 0

\* the payload offset of a published video format
VideoOffset(format) ==
    CASE format \in {"VP6", "VP6A"} -> 1
      [] format = "H264"            -> 4
      [] OTHER                      -> 0

\* a variant of the video payload that never sets the delta-unit flag;
\* KeyframeFlag has to tell it from the code
VideoPayload_unflagged(d, tag_header, data_header, cts) ==
    LET ss == SS(d)
    IN  IF ss.video = None
        THEN Ret(WithAdapter(d, flush(d.adapter, tag_header.data_size + 15)), Again)
        ELSE
          LET is_keyframe == data_header.frame_type = "Key"
              a1     == flush(d.adapter, 16)
              offset == VideoOffset(Unwrap(ss.video).format)
              a2     == IF offset > 0 THEN flush(a1, offset) ELSE a1
              size   == tag_header.data_size - 1 - offset
              dts    == NsOfMs(U64OfU32(tag_header.timestamp))
              pts    == NsOfMs(VideoPtsMs(tag_header.timestamp, cts))
          IN  IF ~CanRead(d.adapter, 16) THEN Ret(d, Panic)
              ELSE IF tag_header.data_size = 0 THEN Ret(WithAdapter(d, a1), Again)
              ELSE IF tag_header.data_size < offset
              THEN IF CanRead(a1, tag_header.data_size - 1)
                   THEN Ret(WithAdapter(d, flush(a1, tag_header.data_size - 1)), Again)
                   ELSE Ret(d, Panic)
              ELSE IF ~CanRead(a1, offset) THEN Ret(d, Panic)
              ELSE IF ~CanRead(a2, size) THEN Ret(d, Panic)
              ELSE IF dts.overflow \/ pts.overflow THEN Ret(d, Panic)
              ELSE Ret(WithAdapter(d, flush(a2, size)),
                       BufferForStream(VIDEO_STREAM_ID,
                           [Buffer_new(get_buffer(a2, size)) EXCEPT
                               !.flags = {},
                               !.dts = Some(dts.val),
                               !.pts = Some(pts.val)]))

\* lines 787-843: the payload of a video tag whose format is settled
VideoPayload(d, tag_header, data_header, cts) ==
    LET ss == SS(d)
    IN  IF ss.video = None
        THEN Ret(WithAdapter(d, flush(d.adapter, tag_header.data_size + 15)), Again)
        ELSE
          LET is_keyframe == data_header.frame_type = "Key"
              a1     == flush(d.adapter, 16)
              offset == VideoOffset(Unwrap(ss.video).format)
              a2     == IF offset > 0 THEN flush(a1, offset) ELSE a1
              size   == tag_header.data_size - 1 - offset
              dts    == NsOfMs(U64OfU32(tag_header.timestamp))
              pts    == NsOfMs(VideoPtsMs(tag_header.timestamp, cts))
          IN  IF ~CanRead(d.adapter, 16) THEN Ret(d, Panic)
              ELSE IF tag_header.data_size = 0 THEN Ret(WithAdapter(d, a1), Again)
              ELSE IF tag_header.data_size < offset
              THEN IF CanRead(a1, tag_header.data_size - 1)
                   THEN Ret(WithAdapter(d, flush(a1, tag_header.data_size - 1)), Again)
                   ELSE Ret(d, Panic)
              ELSE IF ~CanRead(a1, offset) THEN Ret(d, Panic)
              ELSE IF ~CanRead(a2, size) THEN Ret(d, Panic)
              ELSE IF dts.overflow \/ pts.overflow THEN Ret(d, Panic)
              ELSE Ret(WithAdapter(d, flush(a2, size)),
                       BufferForStream(VIDEO_STREAM_ID,
                           [Buffer_new(get_buffer(a2, size)) EXCEPT
                               !.flags = IF is_keyframe THEN {}
                                         ELSE {BUFFER_FLAG_DELTA_UNIT},
                               !.dts = Some(dts.val),
                               !.pts = Some(pts.val)]))

\* lines 727-844; u is what update_video_stream returned
VideoTagAfterUpdate(d0, tag_header, data_header, u) ==
    LET d == WithSS(d0, u.ss)
    IN  IF u.res.kind /= "Again" THEN Ret(d, u.res)
        ELSE IF get_available(d.adapter) < 15 + tag_header.data_size
        THEN Ret(d, NeedMoreData)
        ELSE IF data_header.codec_id = "H264"
        THEN
          IF tag_header.data_size < 1 + 4
          THEN Ret(WithAdapter(d, flush(d.adapter, 15 + tag_header.data_size)), Again)
          ELSE IF ~CanRead(d.adapter, 20) THEN Ret(d0, Panic)
          ELSE
            LET hdr == flavors_avc_video_packet_header(peek_into(d.adapter, 20), 17)
            IN  IF hdr = None THEN Ret(d0, Panic)   \* unimplemented!()
                ELSE IF Unwrap(hdr).packet_type = "SequenceHeader"
                THEN
                  LET a1 == flush(d.adapter, 15 + 1 + 4)
                      n  == tag_header.data_size - 1 - 4
                  IN  IF ~CanRead(a1, n) THEN Ret(d0, Panic)
                      ELSE Ret(WithSS(WithAdapter(d, flush(a1, n)),
                                      [SS(d) EXCEPT !.avc_sequence_header =
                                                        Some(get_buffer(a1, n))]),
                               Again)
                ELSE IF Unwrap(hdr).packet_type = "EndOfSequence"
                THEN Ret(WithAdapter(d, flush(d.adapter, 15 + tag_header.data_size)),
                         Again)
                ELSE OrPanic(d0, VideoPayload(d, tag_header, data_header,
                                              Unwrap(hdr).composition_time))
        ELSE OrPanic(d0, VideoPayload(d, tag_header, data_header, 0))

handle_video_tag(d0, tag_header, data_header) ==
    VideoTagAfterUpdate(d0, tag_header, data_header,
                        update_video_stream(SS(d0), data_header))

\* lines 959-971: the high-water mark after a BufferForStream
UpdateLastPosition(last_position, buffer) ==
    IF IsSome(buffer.pts)
    THEN IF IsSome(last_position)
         THEN Some(U64Max(Unwrap(last_position), Unwrap(buffer.pts)))
         ELSE Some(Unwrap(buffer.pts))
    ELSE IF IsSome(buffer.dts)
    THEN IF IsSome(last_position)
         THEN Some(U64Max(Unwrap(last_position), Unwrap(buffer.dts)))
         ELSE Some(Unwrap(buffer.dts))
    ELSE last_position

\* a variant of the skip count that takes the data offset to count from the
\* end of the header; HeaderSkip has to tell it from the code
SkipLeft_after_header(offset) == offset

\* lines 862-866: the bytes to skip after a header with this data offset
SkipLeft(offset) == IF offset < 9 THEN 0 ELSE offset - 9

\* a variant of the NeedHeader loop that drops two bytes after a failed
\* parse; HeaderResync has to tell it from the code
RECURSIVE NeedHeaderLoop_by_two(_)
NeedHeaderLoop_by_two(d) ==
    IF get_available(d.adapter) >= 9
    THEN LET h == flavors_header(peek_into(d.adapter, 9))
         IN  IF IsSome(h)
             THEN Ret([d EXCEPT
                         !.adapter = flush(d.adapter, 9),
                         !.state = "Skipping",
                         !.skipping =
                             [audio |-> Unwrap(h).audio,
                              video |-> Unwrap(h).video,
                              skip_left |-> SkipLeft(Unwrap(h).offset)]],
                      Again)
             ELSE NeedHeaderLoop_by_two(WithAdapter(d, flush(d.adapter, 2)))
    ELSE Ret(d, NeedMoreData)

\* the NeedHeader loop: drop one byte at a time until a header parses at the
\* front or fewer than 9 bytes are left
RECURSIVE NeedHeaderLoop(_)
NeedHeaderLoop(d) ==
    IF get_available(d.adapter) >= 9
    THEN LET h == flavors_header(peek_into(d.adapter, 9))
         IN  IF IsSome(h)
             THEN Ret([d EXCEPT
                         !.adapter = flush(d.adapter, 9),
                         !.state = "Skipping",
                         !.skipping =
                             [audio |-> Unwrap(h).audio,
                              video |-> Unwrap(h).video,
                              skip_left |-> SkipLeft(Unwrap(h).offset)]],
                      Again)
             ELSE NeedHeaderLoop(WithAdapter(d, flush(d.adapter, 1)))
    ELSE Ret(d, NeedMoreData)

\* lines 925-957: the handler of the tag's type; byte is data[15], the
\* first byte of the payload
HandleTag(d, tag_header, byte) ==
    LET adh == flavors_audio_data_header(byte)
        vdh == flavors_video_data_header(byte)
    IN  CASE tag_header.tag_type = "Script" ->
               handle_script_tag(d, tag_header)
          [] tag_header.tag_type = "Audio" ->
               IF adh = None THEN Ret(d, Panic)
               ELSE handle_audio_tag(d, tag_header, Unwrap(adh))
          [] tag_header.tag_type = "Video" ->
               IF vdh = None THEN Ret(d, Panic)
               ELSE handle_video_tag(d, tag_header, Unwrap(vdh))

\* lines 959-973: r is what the handler returned
NotePosition(r) ==
    IF r.res.kind = "BufferForStream"
    THEN Ret(WithSS(r.d, [SS(r.d) EXCEPT !.last_position =
                 UpdateLastPosition(@, Unwrap(r.res.buffer))]),
             r.res)
    ELSE r

\* a variant of the Streaming arm that waits for 17 bytes before it looks at
\* a tag; BoundedBuffering has to tell it from the code
StreamingStep_wide(d) ==
    IF get_available(d.adapter) < 17
    THEN Ret(d, NeedMoreData)
    ELSE IF flavors_tag_header(peek_into(d.adapter, 16), 5) = None
    THEN Ret(d, Panic)
    ELSE NotePosition(HandleTag(d,
             Unwrap(flavors_tag_header(peek_into(d.adapter, 16), 5)),
             d.adapter[16]))

\* the State::Streaming arm
StreamingStep(d) ==
    IF get_available(d.adapter) < 16
    THEN Ret(d, NeedMoreData)
    ELSE
      LET data == peek_into(d.adapter, 16)
          th   == flavors_tag_header(data, 5)
      IN  IF th = None THEN Ret(d, Panic)   \* unimplemented!()
          ELSE NotePosition(HandleTag(d, Unwrap(th), data[16]))

\* a variant of update_state whose NeedHeader arm also drops a byte when
\* fewer than 9 are buffered; IdempotentPoll has to tell it from the code
update_state_dropping(d) ==
    CASE d.state = "Stopped" -> Ret(d, Panic)
      [] d.state = "NeedHeader" ->
           LET r == NeedHeaderLoop(d)
           IN  IF r.res.kind = "NeedMoreData"
               THEN Ret(WithAdapter(r.d, flush(r.d.adapter,
                                               Min(1, get_available(r.d.adapter)))),
                        NeedMoreData)
               ELSE r
      [] d.state = "Skipping" /\ d.skipping.skip_left = 0 ->
           Ret([d EXCEPT !.state = "Streaming",
                         !.skipping = NoSkipping,
                         !.streaming_state =
                             Some(StreamingState_new(d.skipping.audio,
                                                     d.skipping.video))],
               Again)
      [] d.state = "Skipping" /\ d.skipping.skip_left /= 0 ->
           LET skip == Min(get_available(d.adapter), d.skipping.skip_left)
           IN  Ret([d EXCEPT !.adapter = flush(d.adapter, skip),
                             !.skipping.skip_left = @ - skip],
                   Again)
      [] d.state = "Streaming" -> StreamingStep(d)

update_state(d) ==
    CASE d.state = "Stopped" -> Ret(d, Panic)   \* unreachable!()
      [] d.state = "NeedHeader" -> NeedHeaderLoop(d)
      [] d.state = "Skipping" /\ d.skipping.skip_left = 0 ->
           Ret([d EXCEPT !.state = "Streaming",
                         !.skipping = NoSkipping,
                         !.streaming_state =
                             Some(StreamingState_new(d.skipping.audio,
                                                     d.skipping.video))],
               Again)
      [] d.state = "Skipping" /\ d.skipping.skip_left /= 0 ->
           LET skip == Min(get_available(d.adapter), d.skipping.skip_left)
           IN  Ret([d EXCEPT !.adapter = flush(d.adapter, skip),
                             !.skipping.skip_left = @ - skip],
                   Again)
      [] d.state = "Streaming" -> StreamingStep(d)

(***************************************************************************)
(* impl Demuxer for FlvDemux                                               *)
(***************************************************************************)
start(d) == [d EXCEPT !.state = "NeedHeader", !.skipping = NoSkipping]

\* a variant of stop that leaves the streaming state in place; StopResets
\* has to tell it from the code
stop_keeping_streaming_state(d) ==
    [d EXCEPT !.state = "Stopped", !.skipping = NoSkipping, !.adapter = << >>]

stop(d) ==
    [d EXCEPT !.state = "Stopped", !.skipping = NoSkipping,
              !.adapter = << >>, !.streaming_state = None]

\* buffer is an Option: None, or Some(the bytes pushed)
handle_buffer(d, buffer) ==
    update_state(IF IsSome(buffer)
                 THEN WithAdapter(d, push(d.adapter, Unwrap(buffer)))
                 ELSE d)

get_position(d) ==
    IF IsSome(d.streaming_state) THEN SS(d).last_position ELSE None

get_duration(d) ==
    IF IsSome(d.streaming_state) /\ IsSome(SS(d).metadata)
    THEN Unwrap(SS(d).metadata).duration
    ELSE None

(***************************************************************************)
(* The input the host feeds: FLV file headers, tags and stray bytes, laid  *)
(* out as the wire format has them.                                        *)
(***************************************************************************)
U24Bytes(n) == << n \div 65536, (n \div 256) % 256, n % 256 >>

\* a file header: "FLV", version 1, the audio/video flags, the data offset
FlvHeader(audio, video, offset) ==
    << 70, 76, 86, 1, (IF audio THEN 4 ELSE 0) + (IF video THEN 1 ELSE 0),
       0, 0, offset \div 256, offset % 256 >>

\* previous tag size (4 bytes), tag header (11 bytes), payload; the
\* timestamp is <<extension byte, 24 low bits>>
Tag(type, ts, payload) ==
    << 0, 0, 0, 0, type >> \o U24Bytes(Len(payload)) \o U24Bytes(ts[2])
        \o << ts[1], 0, 0, 0 >> \o payload

Ms(n) == << 0, n >>

\* first payload byte of an audio tag: format:4 rate:2 size:1 type:1
Mp3Byte == (2 * 16) + (3 * 4) + 2 + 1

AacByte == (10 * 16) + (3 * 4) + 2 + 1

SpeexByte == (11 * 16) + 2

\* first payload byte of a video tag: frame_type:4 codec_id:4
KeyFrame(codec) == 16 + codec

InterFrame(codec) == (2 * 16) + codec

ScriptTag(code) == Tag(18, Ms(0), << code >>)

AacSeqHeader(blob) == Tag(8, Ms(0), << AacByte, 0 >> \o blob)

AacRaw(ms, body) == Tag(8, Ms(ms), << AacByte, 1 >> \o body)

AvcSeqHeader(blob) == Tag(9, Ms(0), << KeyFrame(7), 0, 0, 0, 0 >> \o blob)

\* cts is the 24-bit two's complement composition time, as three bytes
AvcNalu(frame, ts, cts, body) == Tag(9, ts, << frame, 1 >> \o cts \o body)

\* an upstream: the file headers it may start with and the tags that follow.
\* A header with data offset 11 comes with its two bytes of padding.
HeaderA == FlvHeader(TRUE, FALSE, 9)

HeaderV == FlvHeader(FALSE, TRUE, 9)

HeaderAV == FlvHeader(TRUE, TRUE, 11) \o << 0, 0 >>

Mp3Tag(ms) == Tag(8, Ms(ms), << Mp3Byte, 1, 2 >>)

H263Tag(ms) == Tag(9, Ms(ms), << KeyFrame(2), 9 >>)

\* composition time -40 ms
CtsMinus40 == << 255, 255, 216 >>

Upstreams ==
    << \* MP3 audio and metadata
       [headers |-> { HeaderA, HeaderAV },
        tags    |-> { Mp3Tag(0), Tag(8, Ms(0), << >>), Tag(8, Ms(0), << Mp3Byte >>),
                      Tag(8, Ms(0), << SpeexByte, 1 >>),
                      ScriptTag(1), ScriptTag(4), ScriptTag(9),
                      Tag(18, Ms(0), << >>) }],
       \* AAC audio
       [headers |-> { HeaderA },
        tags    |-> { AacSeqHeader(<< 17, 144 >>), AacSeqHeader(<< 18 >>),
                      AacRaw(23, << 7, 8 >>), Tag(8, Ms(0), << AacByte >>),
                      Mp3Tag(0), ScriptTag(1) }],
       \* video without setup data
       [headers |-> { HeaderV, HeaderAV },
        tags    |-> { H263Tag(40), Tag(9, Ms(0), << InterFrame(4), 0, 9 >>),
                      Tag(9, Ms(0), << KeyFrame(4) >>),
                      Tag(9, Ms(0), << KeyFrame(1), 0 >>),
                      ScriptTag(2), ScriptTag(3), ScriptTag(6) }],
       \* H.264 video
       [headers |-> { HeaderV },
        tags    |-> { AvcSeqHeader(<< 1, 100 >>),
                      AvcNalu(InterFrame(7), Ms(100), CtsMinus40, << 5 >>),
                      AvcNalu(KeyFrame(7), Ms(5), CtsMinus40, << 6 >>),
                      Tag(9, Ms(0), << KeyFrame(7), 2, 0, 0, 0 >>),
                      Tag(9, Ms(0), << KeyFrame(7), 1, 0, 0 >>),
                      ScriptTag(3) }],
       \* audio and video together, and a tag of an unknown type
       [headers |-> { HeaderAV, HeaderA, HeaderV },
        tags    |-> { Mp3Tag(0), H263Tag(40), AacSeqHeader(<< 17, 144 >>),
                      AacRaw(23, << 7, 8 >>), ScriptTag(1),
                      Tag(10, Ms(0), << 1 >>) }] >>

\* a stray byte ahead of the file header
Garbage == << 70 >>

\* the chunk sizes the host pushes: short of a file header, short of the
\* 16-byte tag window, and everything it has
ChunkSizes(bytes) == { n \in {8, 15, Len(bytes)} : n >= 1 /\ n <= Len(bytes) }

\* how many inputs the host reads from upstream in one run
MaxItems == 4

(***************************************************************************)
(* The state: the demuxer's fields, the result of the latest handle_buffer *)
(* call, and the host's side: the upstream it reads, whether it is at the  *)
(* start of it, what it has read and not yet pushed, how many inputs it    *)
(* has read, the largest time among the buffers returned and the number of *)
(* HaveAllStreams results since the last stop.                             *)
(***************************************************************************)
VARIABLES state, skipping, adapter, streaming_state, res, upstream, at_start,
          pending, fed, emitted, all_streams, file, events

vars == << state, skipping, adapter, streaming_state, res, upstream, at_start,
           pending, fed, emitted, all_streams, file, events >>

\* the demuxer object
D == [state |-> state, skipping |-> skipping, adapter |-> adapter,
      streaming_state |-> streaming_state]

SetD(d) ==
    /\ state' = d.state
    /\ skipping' = d.skipping
    /\ adapter' = d.adapter
    /\ streaming_state' = d.streaming_state

\* pts if present, else dts
BufferTime(buffer) == IF IsSome(buffer.pts) THEN buffer.pts ELSE buffer.dts

\* the largest BufferTime of the buffers returned since the last stop
EmittedAfter(r) ==
    IF r.res.kind = "BufferForStream"
    THEN LET t == BufferTime(Unwrap(r.res.buffer))
         IN  IF IsSome(emitted) /\ IsSome(t)
             THEN Some(U64Max(Unwrap(emitted), Unwrap(t)))
             ELSE IF IsSome(t) THEN t ELSE emitted
    ELSE emitted

IsEvent(r) ==
    r.kind \in {"StreamAdded", "StreamChanged", "StreamsChanged",
                "HaveAllStreams", "BufferForStream"}

\* what the host records of a handle_buffer call that returned r
Returned(r) ==
    /\ SetD(r.d)
    /\ res' = r.res
    /\ emitted' = EmittedAfter(r)
    /\ all_streams' = IF r.res.kind = "HaveAllStreams"
                      THEN all_streams + 1 ELSE all_streams

\* one handle_buffer call
Call(buffer) == Returned(handle_buffer(D, buffer))

Init ==
    /\ state = FlvDemux_new.state
    /\ skipping = FlvDemux_new.skipping
    /\ adapter = FlvDemux_new.adapter
    /\ streaming_state = FlvDemux_new.streaming_state
    /\ res = NoResult
    /\ upstream \in 1..Len(Upstreams)
    /\ at_start = TRUE
    /\ pending = << >>
    /\ fed = 0
    /\ emitted = None
    /\ all_streams = 0
    /\ file = << >>
    /\ events = << >>

\* start(): the host opens its upstream (again)
Start ==
    /\ res.kind /= "Panic"
    /\ SetD(start(D))
    /\ res' = NoResult
    /\ at_start' = TRUE
    /\ pending' = << >>
    /\ UNCHANGED << upstream, fed, emitted, all_streams, file, events >>

Stop ==
    /\ res.kind /= "Panic"
    /\ SetD(stop(D))
    /\ res' = NoResult
    /\ pending' = << >>
    /\ emitted' = None
    /\ all_streams' = 0
    /\ UNCHANGED << upstream, at_start, fed, file, events >>

\* the host reads the next input from upstream: a stray byte or the file
\* header at the start, a tag after it
Feed ==
    /\ res.kind /= "Panic"
    /\ state /= "Stopped"
    /\ pending = << >>
    /\ fed < MaxItems
    /\ \/ /\ at_start
          /\ \/ pending' = Garbage /\ at_start' = TRUE
             \/ \E h \in Upstreams[upstream].headers :
                   pending' = h /\ at_start' = FALSE
       \/ /\ ~at_start
          /\ \E t \in Upstreams[upstream].tags : pending' = t
          /\ at_start' = FALSE
    /\ fed' = fed + 1
    /\ UNCHANGED << state, skipping, adapter, streaming_state, res, upstream,
                    emitted, all_streams, file, events >>

\* handle_buffer(Some(buffer)) with the next n bytes
Push ==
    /\ res.kind /= "Panic"
    /\ state /= "Stopped"
    /\ \E n \in ChunkSizes(pending) :
          /\ Call(Some(SubSeq(pending, 1, n)))
          /\ pending' = SubSeq(pending, n + 1, Len(pending))
    /\ UNCHANGED << upstream, at_start, fed, file, events >>

\* handle_buffer(None)
Poll ==
    /\ res.kind /= "Panic"
    /\ state /= "Stopped"
    /\ Call(None)
    /\ UNCHANGED << upstream, at_start, pending, fed, file, events >>

Next == Start \/ Stop \/ Feed \/ Push \/ Poll

Spec == Init /\ [][Next]_vars

(***************************************************************************)
(* The host's loop over one file: it pushes the file in chunks of any      *)
(* size, one chunk whenever the demuxer asks for more data, and polls      *)
(* again on every other result.  events is what the loop has collected.    *)
(***************************************************************************)
Files ==
    { HeaderA \o Mp3Tag(0) \o ScriptTag(1) \o Mp3Tag(0),
      HeaderAV \o H263Tag(40) \o Mp3Tag(0),
      HeaderV \o AvcSeqHeader(<< 1, 100 >>)
              \o AvcNalu(KeyFrame(7), Ms(5), CtsMinus40, << 6 >>) \o ScriptTag(3),
      Garbage \o HeaderA \o AacSeqHeader(<< 17, 144 >>) \o AacRaw(23, << 7, 8 >>) }

Collect(evs, r) == IF IsEvent(r) THEN Append(evs, r) ELSE evs

InitChunk ==
    /\ state = start(FlvDemux_new).state
    /\ skipping = start(FlvDemux_new).skipping
    /\ adapter = start(FlvDemux_new).adapter
    /\ streaming_state = start(FlvDemux_new).streaming_state
    /\ res = NoResult
    /\ upstream = 1
    /\ at_start = FALSE
    /\ file \in Files
    /\ pending = file
    /\ fed = 0
    /\ emitted = None
    /\ all_streams = 0
    /\ events = << >>

\* handle_buffer(Some(chunk)) once the demuxer has asked for more data
PushC ==
    /\ res.kind \in {"None", "NeedMoreData"}
    /\ \E n \in 1..Len(pending) :
          /\ Call(Some(SubSeq(pending, 1, n)))
          /\ pending' = SubSeq(pending, n + 1, Len(pending))
    /\ events' = Collect(events, res')
    /\ UNCHANGED << upstream, at_start, fed, file >>

\* handle_buffer(None) after any result other than NeedMoreData
PollC ==
    /\ res.kind \notin {"None", "NeedMoreData", "Panic"}
    /\ Call(None)
    /\ events' = Collect(events, res')
    /\ UNCHANGED << upstream, at_start, pending, fed, file >>

NextChunk == PushC \/ PollC

SpecChunk == InitChunk /\ [][NextChunk]_vars

\* polling d until it asks for more data, collecting the events
RECURSIVE PollAll(_, _)
PollAll(r, evs) ==
    IF r.res.kind \in {"NeedMoreData", "Panic"}
    THEN evs
    ELSE LET n == handle_buffer(r.d, None)
         IN  PollAll(n, Collect(evs, n.res))

\* the events of pushing bytes in one piece and polling until NeedMoreData
RunWhole(bytes) ==
    LET r == handle_buffer(start(FlvDemux_new), Some(bytes))
    IN  PollAll(r, Collect(<< >>, r.res))

IsPrefix(s, t) == Len(s) <= Len(t) /\ s = SubSeq(t, 1, Len(s))

\* the chunked run has collected the start of the one-piece run's events,
\* and all of them once the file is pushed and the demuxer asks for more
SameEvents ==
    /\ IsPrefix(events, RunWhole(file))
    /\ (pending = << >> /\ res.kind = "NeedMoreData") => events = RunWhole(file)

\* a poll after a result other than NeedMoreData moves the demuxer on
PollAdvances ==
    res.kind \notin {"None", "NeedMoreData", "Panic"}
        => handle_buffer(D, None) /= Ret(D, res)

\* C1: chunking independence.  For a valid FLV stream cut into non-empty
\* chunks, pushing the chunks one at a time and polling after each push until
\* NeedMoreData yields the same sequence of stream and buffer events as
\* pushing the stream in one piece and polling until NeedMoreData: every
\* polling loop reaches NeedMoreData, and the events collected are those of
\* the one-piece run.
ChunkingIndependence == SameEvents /\ PollAdvances

(***************************************************************************)
(* Properties of the demuxer under Spec                                    *)
(***************************************************************************)

\* C2: idempotent polling.  In every reachable state in which handle_buffer
\* has returned NeedMoreData, calling handle_buffer(None) returns
\* NeedMoreData again and leaves the top-level state, the adapter and every
\* field of the streaming state as they were.
IdempotentPoll ==
    res.kind = "NeedMoreData" => handle_buffer(D, None) = Ret(D, NeedMoreData)

\* NeedMoreData was returned for a tag whose header is buffered but whose
\* payload is not, after its stream was published, and polling again says
\* NeedMoreData
IdempotentPollWitness ==
    /\ res.kind = "NeedMoreData"
    /\ state = "Streaming"
    /\ get_available(adapter) >= 16
    /\ (IsSome(SS(D).audio) \/ IsSome(SS(D).video))
    /\ handle_buffer(D, None).res.kind = "NeedMoreData"

\* C3: the streaming state exists if and only if the top-level state is
\* Streaming, in every state reachable by start, handle_buffer and stop
\* calls, start without a stop before it included.
StreamingStateIffStreaming ==
    IsSome(streaming_state) <=> state = "Streaming"

\* C6: HaveAllStreams is returned only in a state where every stream the
\* file header advertised has a published format: on its return,
\* expect_audio implies audio is published and expect_video implies video
\* is published.
HaveAllStreamsComplete ==
    res.kind = "HaveAllStreams" =>
        /\ IsSome(streaming_state)
        /\ SS(D).expect_audio => IsSome(SS(D).audio)
        /\ SS(D).expect_video => IsSome(SS(D).video)

\* HaveAllStreams for a file that advertised both streams
HaveAllStreamsBoth ==
    /\ res.kind = "HaveAllStreams"
    /\ SS(D).expect_audio
    /\ SS(D).expect_video

IsAacCaps(caps) ==
    /\ caps.name = "audio/mpeg"
    /\ CapsHas(caps, "mpegversion")
    /\ CapsGet(caps, "mpegversion") = 4

IsH264Caps(caps) == caps.name = "video/x-h264"

\* C7: setup before announcement.  A StreamAdded, StreamChanged or
\* StreamsChanged entry that describes an AAC audio stream (an H.264 video
\* stream) is returned only when an AAC (AVC) sequence header has been
\* consumed and its blob is cached in the streaming state, and the entry
\* carries a blob as codec_data; no AAC or H.264 buffer is returned before
\* that either.
SetupBeforeAnnouncement ==
    /\ \A i \in 1..Len(res.streams) :
          LET caps == res.streams[i].caps
          IN  /\ IsAacCaps(caps) =>
                    IsSome(SS(D).aac_sequence_header) /\ CapsHas(caps, "codec_data")
              /\ IsH264Caps(caps) =>
                    IsSome(SS(D).avc_sequence_header) /\ CapsHas(caps, "codec_data")
    /\ (res.kind = "BufferForStream" /\ res.id = AUDIO_STREAM_ID
            /\ Unwrap(SS(D).audio).format = "AAC")
          => IsSome(SS(D).aac_sequence_header)
    /\ (res.kind = "BufferForStream" /\ res.id = VIDEO_STREAM_ID
            /\ Unwrap(SS(D).video).format = "H264")
          => IsSome(SS(D).avc_sequence_header)

\* an AAC stream has been announced and one of its buffers returned
AacBufferReturned ==
    /\ res.kind = "BufferForStream"
    /\ res.id = AUDIO_STREAM_ID
    /\ Unwrap(SS(D).audio).format = "AAC"
    /\ SS(D).aac_sequence_header = Some(<< 17, 144 >>)

\* Option<u64> in Rust's order: None below every Some
OptU64Le(a, b) ==
    a = None \/ (IsSome(b) /\ ~U64Lt(Unwrap(b), Unwrap(a)))

\* C4: monotonic position.  The value get_position() returns never
\* decreases from one observation to the next over a run of pushes and
\* polls (every step that is not a stop), and after each BufferForStream it
\* is the maximum, over the buffers returned so far, of pts if present,
\* else dts.
PositionMonotonic ==
    /\ [](res.kind = "BufferForStream" => get_position(D) = emitted)
    /\ [][state' /= "Stopped" => OptU64Le(get_position(D), get_position(D)')]_vars

GotAll == IsSome(streaming_state) /\ SS(D).got_all_streams

\* C5: got_all_streams latches.  Once got_all_streams is true it stays true
\* after every operation other than stop, so HaveAllStreams is returned at
\* most once between a start and the stop that follows it.
GotAllStreamsLatches ==
    /\ [](all_streams <= 1)
    /\ [][(GotAll /\ state' /= "Stopped") => GotAll']_vars

(***************************************************************************)
(* Video timestamps: one video tag, with a timestamp and a composition     *)
(* time from the edges of their ranges, pushed into a demuxer that has     *)
(* already published a video stream.                                       *)
(***************************************************************************)
\* timestamps as <<extension byte, low 24 bits>>: 0 .. 2^32 - 1
Timestamps ==
    { << 0, 0 >>, << 0, 39 >>, << 0, 40 >>, << 0, 41 >>, << 0, 8388607 >>,
      << 0, 8388608 >>, << 0, 16777215 >>, << 1, 0 >>, << 128, 0 >>,
      << 255, 16777215 >> }

\* composition times in ms: -2^23 .. 2^23 - 1
CompositionTimes ==
    { -8388608, -8388607, -41, -40, -1, 0, 1, 40, 8388607 }

\* a 24-bit signed value as its three bytes
I24Bytes(c) == U24Bytes(c % 16777216)

NaluAt(t, c) == AvcNalu(InterFrame(7), t, I24Bytes(c), << 5 >>)

H263At(t) == Tag(9, t, << KeyFrame(2), 9 >>)

\* the demuxer after start, a push of bytes and polls until NeedMoreData
RECURSIVE PollOn(_)
PollOn(r) ==
    IF r.res.kind \in {"NeedMoreData", "Panic"}
    THEN r.d
    ELSE PollOn(handle_buffer(r.d, None))

Settle(bytes) == PollOn(handle_buffer(start(FlvDemux_new), Some(bytes)))

\* streams whose video format is published once they are consumed
PublishedVideo ==
    { HeaderV \o AvcSeqHeader(<< 1, 100 >>)
              \o AvcNalu(KeyFrame(7), Ms(0), << 0, 0, 0 >>, << 6 >>),
      HeaderV \o H263Tag(0) }

\* the demuxer is d
Holds(d) ==
    /\ state = d.state
    /\ skipping = d.skipping
    /\ adapter = d.adapter
    /\ streaming_state = d.streaming_state
    /\ emitted = get_position(d)

InitTs ==
    /\ \E base \in PublishedVideo : Holds(Settle(base))
    /\ res = NeedMoreData
    /\ upstream = 1
    /\ at_start = FALSE
    /\ file \in { NaluAt(t, c) : t \in Timestamps, c \in CompositionTimes }
                  \cup { H263At(t) : t \in Timestamps }
    /\ pending = file
    /\ fed = 0
    /\ all_streams = 1
    /\ events = << >>

PushT ==
    /\ res.kind /= "Panic"
    /\ \E n \in ChunkSizes(pending) :
          /\ Call(Some(SubSeq(pending, 1, n)))
          /\ pending' = SubSeq(pending, n + 1, Len(pending))
    /\ UNCHANGED << upstream, at_start, fed, file, events >>

PollT ==
    /\ res.kind \notin {"NeedMoreData", "Panic"}
    /\ Call(None)
    /\ UNCHANGED << upstream, at_start, pending, fed, file, events >>

NextTs == PushT \/ PollT

SpecTs == InitTs /\ [][NextTs]_vars

\* x \div k on u64 for a small k, with the remainder
U64DivSmall(x, k) ==
    LET n1 == x[1]
        n2 == ((n1 % k) * LimbBase) + x[2]
        n3 == ((n2 % k) * LimbBase) + x[3]
        n4 == ((n3 % k) * LimbBase) + x[4]
    IN  [val |-> << n1 \div k, n2 \div k, n3 \div k, n4 \div k >>, rem |-> n4 % k]

\* ns is ms * 1_000_000 for the u64 ms whose value is ext * 2^24 + low
IsMillis(ns, ext, low) ==
    LET us == U64DivSmall(ns, 1000)
        ms == U64DivSmall(us.val, 1000)
    IN  /\ us.rem = 0
        /\ ms.rem = 0
        /\ ms.val[1] = 0
        /\ (ms.val[2] * 256) + (ms.val[3] \div 256) = ext
        /\ ((ms.val[3] % 256) * 65536) + ms.val[4] = low

\* t + c for a timestamp <<ext, low>> and a composition time c, as
\* <<ext, low>> again; t + c is not negative
PlusCts(t, c) ==
    LET low == t[2] + c
    IN  IF low < 0 THEN << t[1] - 1, low + 16777216 >>
        ELSE IF low >= 16777216 THEN << t[1] + 1, low - 16777216 >>
        ELSE << t[1], low >>

\* the times of the video buffer returned for a tag with timestamp t and
\* composition time c
TimesFor(t, c) ==
    LET b == Unwrap(res.buffer)
        p == IF c >= 0 \/ t[1] > 0 \/ t[2] >= -c THEN PlusCts(t, c) ELSE << 0, 0 >>
    IN  /\ IsSome(b.dts)
        /\ IsSome(b.pts)
        /\ IsMillis(Unwrap(b.dts), t[1], t[2])
        /\ IsMillis(Unwrap(b.pts), p[1], p[2])

\* C8: video timestamp arithmetic.  Every video buffer returned for a tag
\* with timestamp t ms and composition time c ms (0 for codecs other than
\* H.264) has dts = t * 1_000_000, and pts = (t + c) * 1_000_000 when
\* c >= 0 or t >= -c and pts = 0 otherwise; no step of the computation
\* wraps or panics, for t up to 2^32 - 1 and c from -2^23 to 2^23 - 1.
VideoTimestamps ==
    /\ res.kind /= "Panic"
    /\ res.kind = "BufferForStream" =>
          /\ \A t \in Timestamps, c \in CompositionTimes :
                file = NaluAt(t, c) => TimesFor(t, c)
          /\ \A t \in Timestamps : file = H263At(t) => TimesFor(t, 0)

\* a buffer whose presentation time was clamped to 0, and one at the top of
\* both ranges
ClampedPts ==
    /\ res.kind = "BufferForStream"
    /\ file = NaluAt(<< 0, 39 >>, -40)
    /\ Unwrap(res.buffer).pts = Some(U64Zero)
    /\ Unwrap(res.buffer).dts /= Some(U64Zero)

(***************************************************************************)
(* Payload offsets                                                         *)
(***************************************************************************)
\* the header of the tag at the front of the adapter, when the demuxer is
\* streaming and the 16 bytes it looks at are buffered
FrontTag ==
    IF state = "Streaming" /\ res.kind /= "Panic" /\ get_available(adapter) >= 16
    THEN flavors_tag_header(peek_into(adapter, 16), 5)
    ELSE None

\* the same when the whole tag is buffered
HeadTag ==
    IF IsSome(FrontTag)
       /\ get_available(adapter) >= 15 + Unwrap(FrontTag).data_size
    THEN FrontTag
    ELSE None

\* the next call returns the buffer of stream id made of the head tag's
\* payload without its first dropped bytes
ReturnsPayload(id, dropped) ==
    LET r  == handle_buffer(D, None)
        ds == Unwrap(HeadTag).data_size
    IN  /\ r.res.kind = "BufferForStream"
        /\ r.res.id = id
        /\ Len(Unwrap(r.res.buffer).data) = ds - dropped
        /\ Unwrap(r.res.buffer).data = SubSeq(adapter, 16 + dropped, 15 + ds)

\* the head tag is an audio tag of at least min_aac bytes (AAC) or 1 byte
\* (any other format), its format is the published one, it is no AAC
\* sequence header: the next call returns its payload
AudioPayloadCase(min_aac) ==
    LET ds  == Unwrap(HeadTag).data_size
        adh == flavors_audio_data_header(adapter[16])
        u   == update_audio_stream(SS(D), Unwrap(adh))
        aac == Unwrap(adh).sound_format = "AAC"
    IN  (/\ IsSome(adh)
         /\ u.res.kind = "Again"
         /\ IsSome(u.ss.audio)
         /\ ds >= (IF aac THEN min_aac ELSE 1)
         /\ ~(aac /\ ds >= 2 /\ adapter[17] = 0))
        => ReturnsPayload(AUDIO_STREAM_ID, IF aac THEN 2 ELSE 1)

\* the same for a video tag: at least min_avc bytes (H.264), min_vp6 bytes
\* (VP6, VP6A) or 1 byte, and no AVC sequence header or end of sequence
VideoPayloadCase(min_avc, min_vp6) ==
    LET ds  == Unwrap(HeadTag).data_size
        vdh == flavors_video_data_header(adapter[16])
        u   == update_video_stream(SS(D), Unwrap(vdh))
        avc == Unwrap(vdh).codec_id = "H264"
        vp6 == Unwrap(vdh).codec_id \in {"VP6", "VP6A"}
    IN  (/\ IsSome(vdh)
         /\ u.res.kind = "Again"
         /\ IsSome(u.ss.video)
         /\ ds >= (IF avc THEN min_avc ELSE IF vp6 THEN min_vp6 ELSE 1)
         /\ ~(avc /\ ds >= 2 /\ adapter[17] \in {0, 2}))
        => ReturnsPayload(VIDEO_STREAM_ID, IF avc THEN 5 ELSE IF vp6 THEN 2 ELSE 1)

PayloadCases(min_aac, min_avc, min_vp6) ==
    (IsSome(HeadTag) /\ Unwrap(HeadTag).data_size >= 1) =>
        /\ Unwrap(HeadTag).tag_type = "Audio" => AudioPayloadCase(min_aac)
        /\ Unwrap(HeadTag).tag_type = "Video" => VideoPayloadCase(min_avc, min_vp6)

\* C9 as stated: for every audio or video tag with data_size >= 1 whose
\* format is published and which is no sequence header or end of sequence,
\* handle_buffer returns one BufferForStream of size data_size - 2 (AAC
\* raw), data_size - 5 (H.264 NALU), data_size - 2 (VP6, VP6A) or
\* data_size - 1 (any other codec).
PayloadOffsets == PayloadCases(1, 1, 1)

\* C9: payload offsets, for the tags that are long enough to have the
\* dropped bytes: data_size >= 2 for AAC raw and VP6/VP6A, data_size >= 5
\* for an H.264 NALU, data_size >= 1 for any other codec.  handle_buffer
\* returns one BufferForStream whose data is the payload without its first
\* 2 (AAC raw), 5 (H.264 NALU), 2 (VP6, VP6A) or 1 (other codecs) bytes.
PayloadOffsetsWhereDefined == PayloadCases(2, 5, 2)

\* an H.264 NALU is at the front, its stream published, and the next call
\* returns its payload
NaluPayloadNext ==
    /\ IsSome(HeadTag)
    /\ Unwrap(HeadTag).tag_type = "Video"
    /\ Unwrap(HeadTag).data_size >= 5
    /\ IsSome(SS(D).video)
    /\ Unwrap(SS(D).video).format = "H264"
    /\ adapter[17] = 1
    /\ handle_buffer(D, None).res.kind = "BufferForStream"

(***************************************************************************)
(* Bitrate                                                                 *)
(***************************************************************************)
\* two audio formats that differ in the bitrate at most
AudioSameButBitrate(f, g) ==
    /\ f.format = g.format
    /\ f.rate = g.rate
    /\ f.width = g.width
    /\ f.channels = g.channels
    /\ f.aac_sequence_header = g.aac_sequence_header

\* two video formats that differ in the bitrate at most
VideoSameButBitrate(f, g) ==
    /\ f.format = g.format
    /\ f.width = g.width
    /\ f.height = g.height
    /\ f.pixel_aspect_ratio = g.pixel_aspect_ratio
    /\ f.framerate = g.framerate
    /\ f.avc_sequence_header = g.avc_sequence_header

Announces(r) == r.res.kind \in {"StreamAdded", "StreamChanged"}

\* the tag at the front derives a format that differs from the published
\* one in the bitrate at most: the call that looks at it announces nothing
QuietTag ==
    IsSome(FrontTag) =>
        LET adh == flavors_audio_data_header(adapter[16])
            vdh == flavors_video_data_header(adapter[16])
            ss  == SS(D)
        IN  /\ (/\ Unwrap(FrontTag).tag_type = "Audio"
                /\ IsSome(adh)
                /\ IsSome(ss.audio)
                /\ AudioSameButBitrate(Unwrap(ss.audio),
                       AudioFormat_new(Unwrap(adh), ss.metadata,
                                       ss.aac_sequence_header)))
               => ~Announces(handle_buffer(D, None))
            /\ (/\ Unwrap(FrontTag).tag_type = "Video"
                /\ IsSome(vdh)
                /\ IsSome(ss.video)
                /\ VideoSameButBitrate(Unwrap(ss.video),
                       VideoFormat_new(Unwrap(vdh), ss.metadata,
                                       ss.avc_sequence_header)))
               => ~Announces(handle_buffer(D, None))

\* the published audio format got another bitrate in this step
AudioBitrateChanged ==
    /\ IsSome(streaming_state)
    /\ IsSome(streaming_state')
    /\ IsSome(SS(D).audio)
    /\ IsSome(SS(D).audio')
    /\ Unwrap(SS(D).audio).bitrate /= Unwrap(SS(D).audio').bitrate

\* the published video format got another bitrate in this step
VideoBitrateChanged ==
    /\ IsSome(streaming_state)
    /\ IsSome(streaming_state')
    /\ IsSome(SS(D).video)
    /\ IsSome(SS(D).video')
    /\ Unwrap(SS(D).video).bitrate /= Unwrap(SS(D).video').bitrate

Lists(r, id) == \E i \in 1..Len(r.streams) : r.streams[i].id = id

\* C10: bitrate-only changes do not announce.  A tag whose derived format
\* differs from the published audio (video) format in the bitrate field at
\* most produces neither StreamAdded nor StreamChanged, and whenever the
\* bitrate of a published format changes, the call that changed it returns
\* StreamsChanged with that stream in its list.
BitrateOnlyChanges ==
    /\ []QuietTag
    /\ [][/\ AudioBitrateChanged
             => (res'.kind = "StreamsChanged" /\ Lists(res', AUDIO_STREAM_ID))
          /\ VideoBitrateChanged
             => (res'.kind = "StreamsChanged" /\ Lists(res', VIDEO_STREAM_ID))]_vars

\* onMetaData has just changed the published audio bitrate, returning
\* StreamsChanged, and the audio tag behind it is returned with no
\* announcement
BitrateAnnounced ==
    /\ res.kind = "StreamsChanged"
    /\ Lists(res, AUDIO_STREAM_ID)
    /\ IsSome(Unwrap(SS(D).audio).bitrate)
    /\ IsSome(HeadTag)
    /\ Unwrap(HeadTag).tag_type = "Audio"
    /\ handle_buffer(D, None).res.kind = "BufferForStream"

(***************************************************************************)
(* Metadata merge                                                          *)
(***************************************************************************)
\* the metadata of the onMetaData tag at the head of the adapter, None when
\* the head is no complete script tag or no onMetaData record
HeadMetadata ==
    IF IsSome(HeadTag) /\ Unwrap(HeadTag).tag_type = "Script"
    THEN LET p == flavors_script_data(
                      SubSeq(adapter, 16, 15 + Unwrap(HeadTag).data_size))
         IN  IF IsSome(p) /\ Unwrap(p).name = "onMetaData"
             THEN Some(Metadata_new(Unwrap(p)))
             ELSE None
    ELSE None

\* the published audio format has a metadata-derived field that m changes
AudioSideChanged(m) ==
    /\ IsSome(SS(D).audio)
    /\ Unwrap(SS(D).audio).bitrate /= m.audio_bitrate

\* the same for the published video format
VideoSideChanged(m) ==
    /\ IsSome(SS(D).video)
    /\ \/ Unwrap(SS(D).video).width /= m.video_width
       \/ Unwrap(SS(D).video).height /= m.video_height
       \/ Unwrap(SS(D).video).pixel_aspect_ratio /= m.video_pixel_aspect_ratio
       \/ Unwrap(SS(D).video).framerate /= m.video_framerate
       \/ Unwrap(SS(D).video).bitrate /= m.video_bitrate

ChangedSides(m) ==
    (IF AudioSideChanged(m) THEN << AUDIO_STREAM_ID >> ELSE << >>)
    \o (IF VideoSideChanged(m) THEN << VIDEO_STREAM_ID >> ELSE << >>)

StreamIds(r) == [i \in 1..Len(r.streams) |-> r.streams[i].id]

\* r is what the call on the onMetaData tag returned: m is stored, and the
\* result is StreamsChanged with the changed sides, or Again when there is none
MergeResult(m, r) ==
    /\ SS(r.d).metadata = Some(m)
    /\ r.d.adapter = SubSeq(adapter, 16 + Unwrap(HeadTag).data_size, Len(adapter))
    /\ IF ChangedSides(m) /= << >>
       THEN r.res.kind = "StreamsChanged" /\ StreamIds(r.res) = ChangedSides(m)
       ELSE r.res = Again

\* the data header in byte b has the codec, rate, sample size and channels
\* of the published audio format
AudioHeaderUnchanged(b) ==
    LET adh == flavors_audio_data_header(b)
    IN  /\ IsSome(adh)
        /\ AudioFormat_eq(
               AudioFormat_new(Unwrap(adh), None,
                               Unwrap(SS(D).audio).aac_sequence_header),
               Unwrap(SS(D).audio))

\* the data header in byte b has the codec of the published video format
VideoHeaderUnchanged(b) ==
    LET vdh == flavors_video_data_header(b)
    IN  /\ IsSome(vdh)
        /\ Unwrap(vdh).codec_id = Unwrap(SS(D).video).format

\* d with one tag in its adapter
NextTag(d, tag) == handle_buffer(WithAdapter(d, tag), None)

\* after the call on the onMetaData tag returned r, a tag of a changed side
\* whose data header is unchanged is not announced; with same_setup, only
\* when the cached setup blob is the one in the published format
AnnouncedOnce(m, r, same_setup) ==
    \A b \in 0..255 :
        /\ (/\ AudioSideChanged(m)
            /\ AudioHeaderUnchanged(b)
            /\ same_setup => SS(D).aac_sequence_header
                                = Unwrap(SS(D).audio).aac_sequence_header)
           => ~Announces(NextTag(r.d, Tag(8, Ms(0), << b, 1, 2 >>)))
        /\ (/\ VideoSideChanged(m)
            /\ VideoHeaderUnchanged(b)
            /\ same_setup => SS(D).avc_sequence_header
                                = Unwrap(SS(D).video).avc_sequence_header)
           => ~Announces(NextTag(r.d, Tag(9, Ms(0), << b, 1, 0, 0, 0, 2 >>)))

MergeCase(m, r, same_setup) == MergeResult(m, r) /\ AnnouncedOnce(m, r, same_setup)

\* C11 as stated: an onMetaData tag that changes a metadata-derived field of
\* a published stream returns StreamsChanged listing exactly the changed
\* sides, and the next tag of that stream with an unchanged data header is
\* announced by no StreamAdded or StreamChanged; when nothing changed or no
\* stream is published the tag returns Again; the metadata is stored in
\* every case.
MetadataMergeAnyTag ==
    IsSome(HeadMetadata) =>
        MergeCase(Unwrap(HeadMetadata), handle_buffer(D, None), FALSE)

\* C11: metadata merge.  The same, where the next tag of a changed stream is
\* not announced provided the cached setup blob is still the one the
\* published format carries: a setup blob replaced since the stream was
\* published is announced by the next tag, metadata or not.
MetadataMerge ==
    IsSome(HeadMetadata) =>
        MergeCase(Unwrap(HeadMetadata), handle_buffer(D, None), TRUE)

\* an onMetaData tag that changes the width of the published video stream
\* is at the head, and the call on it returns StreamsChanged
MetadataChangesVideo ==
    /\ IsSome(HeadMetadata)
    /\ ChangedSides(Unwrap(HeadMetadata)) = << VIDEO_STREAM_ID >>
    /\ Unwrap(HeadMetadata).video_width = Some(320)
    /\ handle_buffer(D, None).res.kind = "StreamsChanged"

(***************************************************************************)
(* Header skip: one file made of an optional stray byte, a file header     *)
(* with some data offset, the bytes up to that offset and one tag, pushed  *)
(* in chunks of any size with polls in between.                            *)
(***************************************************************************)
\* data offsets below, at and above the header's 9 bytes
SkipOffsets == {0, 8, 9, 10, 13}

\* the bytes between the header and the data offset; they read like the
\* start of a file header
SkipPadding(offset) == SubSeq(<< 70, 76, 86, 1 >>, 1, Max(0, offset - 9))

\* start: where the header begins; skip: how many bytes lie between the
\* header and the first tag
SkipFile(lead, audio, video, offset) ==
    [bytes |-> lead \o FlvHeader(audio, video, offset) \o SkipPadding(offset)
                    \o (IF audio THEN Mp3Tag(0) ELSE H263Tag(40)),
     start |-> Len(lead),
     skip  |-> Max(0, offset - 9),
     audio |-> audio,
     video |-> video]

SkipFiles ==
    { SkipFile(lead, audio, video, offset) :
          lead \in {<< >>, Garbage}, audio \in BOOLEAN, video \in BOOLEAN,
          offset \in SkipOffsets }

InitSkip ==
    /\ state = start(FlvDemux_new).state
    /\ skipping = start(FlvDemux_new).skipping
    /\ adapter = start(FlvDemux_new).adapter
    /\ streaming_state = start(FlvDemux_new).streaming_state
    /\ res = NoResult
    /\ upstream = 1
    /\ at_start = FALSE
    /\ file \in { f.bytes : f \in SkipFiles }
    /\ pending = file
    /\ fed = 0
    /\ emitted = None
    /\ all_streams = 0
    /\ events = << >>

\* handle_buffer(Some(chunk)), whatever the latest result
PushS ==
    /\ res.kind /= "Panic"
    /\ \E n \in 1..Len(pending) :
          /\ Call(Some(SubSeq(pending, 1, n)))
          /\ pending' = SubSeq(pending, n + 1, Len(pending))
    /\ events' = Collect(events, res')
    /\ UNCHANGED << upstream, at_start, fed, file >>

\* handle_buffer(None)
PollS ==
    /\ res.kind /= "Panic"
    /\ Call(None)
    /\ events' = Collect(events, res')
    /\ UNCHANGED << upstream, at_start, pending, fed, file >>

NextSkip == PushS \/ PollS

SpecSkip == InitSkip /\ [][NextSkip]_vars

TheFile == CHOOSE f \in SkipFiles : f.bytes = file

\* bytes the adapter has let go of, bytes pushed, and where the first tag is
Consumed == Len(file) - Len(adapter) - Len(pending)

Pushed == Len(file) - Len(pending)

FirstTagAt == TheFile.start + 9 + TheFile.skip

\* C12: header skip.  After a file header with data offset D is accepted,
\* exactly max(0, D - 9) further bytes are discarded before the first tag is
\* parsed, whatever the chunking; once the header and the skipped bytes have
\* been pushed and handle_buffer has returned NeedMoreData, the state is
\* Streaming with expect_audio and expect_video equal to the header's flags,
\* no stream published and no stream event returned.
HeaderSkip ==
    /\ res.kind /= "Panic"
    /\ state = "NeedHeader" => Consumed <= TheFile.start
    /\ state = "Skipping" =>
          /\ skipping.skip_left \in 0..TheFile.skip
          /\ Consumed = FirstTagAt - skipping.skip_left
          /\ skipping.audio = TheFile.audio
          /\ skipping.video = TheFile.video
    /\ state = "Streaming" =>
          /\ Consumed \in {FirstTagAt, Len(file)}
          /\ SS(D).expect_audio = TheFile.audio
          /\ SS(D).expect_video = TheFile.video
    /\ Pushed < FirstTagAt + 16 => events = << >>
    /\ (res.kind = "NeedMoreData" /\ Pushed >= FirstTagAt) => state = "Streaming"
    /\ (res.kind = "NeedMoreData" /\ Pushed = FirstTagAt) =>
          /\ adapter = << >>
          /\ streaming_state
                = Some(StreamingState_new(TheFile.audio, TheFile.video))

\* a header with data offset 13 behind a stray byte has been pushed with its
\* four skipped bytes, and NeedMoreData returned
SkippedFour ==
    /\ res.kind = "NeedMoreData"
    /\ state = "Streaming"
    /\ TheFile.skip = 4
    /\ TheFile.start = 1
    /\ Pushed = FirstTagAt
    /\ all_streams = 0

(***************************************************************************)
(* The order of events: one file of a header and a few tags, pushed in     *)
(* chunks of any size with polls in between, into a demuxer that was just  *)
(* started, for the first time or again without a stop in between.         *)
(***************************************************************************)
SpeexTag == Tag(8, Ms(0), << SpeexByte, 1 >>)

OrderFiles ==
    { HeaderA \o Mp3Tag(0) \o Mp3Tag(26),
      HeaderA \o AacSeqHeader(<< 17, 144 >>) \o AacRaw(23, << 7, 8 >>) \o Mp3Tag(46),
      HeaderA \o Mp3Tag(0) \o SpeexTag \o Mp3Tag(26),
      HeaderA \o AacSeqHeader(<< 17, 144 >>) \o AacSeqHeader(<< 18 >>)
              \o AacRaw(23, << 7, 8 >>),
      HeaderA \o H263Tag(40) \o Mp3Tag(0),
      HeaderV \o H263Tag(40) \o ScriptTag(2) \o H263Tag(80),
      HeaderV \o AvcSeqHeader(<< 1, 100 >>)
              \o AvcNalu(KeyFrame(7), Ms(5), CtsMinus40, << 6 >>) \o H263Tag(40),
      HeaderV \o Mp3Tag(0) \o H263Tag(40),
      HeaderAV \o Mp3Tag(0) \o H263Tag(40) \o Mp3Tag(26),
      HeaderAV \o H263Tag(40) \o Mp3Tag(0) }

\* the demuxer at the start of a session: new, or one that streamed another
\* file, holds the start of a tag and is started again without a stop
OrderStarts ==
    { start(FlvDemux_new),
      start(Settle(HeaderAV \o H263Tag(40) \o Mp3Tag(0) \o << 0, 0, 0, 0, 8 >>)) }

InitOrder ==
    /\ \E d \in OrderStarts : Holds(d)
    /\ res = NoResult
    /\ upstream = 1
    /\ at_start = FALSE
    /\ file \in OrderFiles
    /\ pending = file
    /\ fed = 0
    /\ all_streams = 0
    /\ events = << >>

SpecOrder == InitOrder /\ [][NextSkip]_vars

IsBufferFor(e, id) == e.kind = "BufferForStream" /\ e.id = id

IsAddedFor(e, id) == e.kind = "StreamAdded" /\ Lists(e, id)

\* every buffer of the session comes after a StreamAdded of its stream
AnnouncedFirst ==
    \A i \in 1..Len(events) :
        events[i].kind = "BufferForStream" =>
            \E j \in 1..(i - 1) : IsAddedFor(events[j], events[i].id)

\* every buffer of stream id comes after a StreamAdded of it and a
\* HaveAllStreams behind that
AddedAllBuffer(id) ==
    \A i \in 1..Len(events) :
        IsBufferFor(events[i], id) =>
            \E j \in 1..(i - 1), k \in 1..(i - 1) :
                /\ j < k
                /\ IsAddedFor(events[j], id)
                /\ events[k].kind = "HaveAllStreams"

\* the flags byte of the file header: 4 is audio only, 1 is video only
HeaderFlags == file[5]

\* C13: announcement order.  Within a session no BufferForStream of a stream
\* is returned unless a StreamAdded of the same stream id was returned
\* earlier in it; and when the header advertises one stream kind only, the
\* events for the tags of that kind come in the order StreamAdded,
\* HaveAllStreams, first BufferForStream.
AnnouncementOrder ==
    /\ AnnouncedFirst
    /\ HeaderFlags = 4 => AddedAllBuffer(AUDIO_STREAM_ID)
    /\ HeaderFlags = 1 => AddedAllBuffer(VIDEO_STREAM_ID)

\* a demuxer started again without a stop has returned StreamAdded,
\* HaveAllStreams and the first audio buffer of an audio-only file
AudioOnlyOrder ==
    /\ IsSome(emitted)
    /\ HeaderFlags = 4
    /\ Len(events) = 3
    /\ IsAddedFor(events[1], AUDIO_STREAM_ID)
    /\ events[2].kind = "HaveAllStreams"
    /\ IsBufferFor(events[3], AUDIO_STREAM_ID)

(***************************************************************************)
(* Format-level anomalies                                                  *)
(***************************************************************************)
\* the audio data header of the head tag, None when the head is no complete
\* audio tag with a payload
HeadAudioHeader ==
    IF IsSome(HeadTag) /\ Unwrap(HeadTag).tag_type = "Audio"
       /\ Unwrap(HeadTag).data_size >= 1
    THEN flavors_audio_data_header(adapter[16])
    ELSE None

\* the same for a video tag
HeadVideoHeader ==
    IF IsSome(HeadTag) /\ Unwrap(HeadTag).tag_type = "Video"
       /\ Unwrap(HeadTag).data_size >= 1
    THEN flavors_video_data_header(adapter[16])
    ELSE None

\* the head tag's format has no caps description: AAC or H.264 without a
\* cached setup blob, Speex, device-specific, JPEG
HeadWithoutCaps ==
    \/ /\ IsSome(HeadAudioHeader)
       /\ \/ Unwrap(HeadAudioHeader).sound_format \in {"SPEEX", "DEVICE_SPECIFIC"}
          \/ /\ Unwrap(HeadAudioHeader).sound_format = "AAC"
             /\ SS(D).aac_sequence_header = None
    \/ /\ IsSome(HeadVideoHeader)
       /\ \/ Unwrap(HeadVideoHeader).codec_id = "JPEG"
          \/ /\ Unwrap(HeadVideoHeader).codec_id = "H264"
             /\ SS(D).avc_sequence_header = None

\* the head tag's payload is too small for its codec's packet header
HeadTooSmall ==
    \/ /\ IsSome(HeadAudioHeader)
       /\ Unwrap(HeadAudioHeader).sound_format = "AAC"
       /\ Unwrap(HeadTag).data_size < 2
    \/ /\ IsSome(HeadVideoHeader)
       /\ Unwrap(HeadVideoHeader).codec_id = "H264"
       /\ Unwrap(HeadTag).data_size < 5

\* the call that returned r took the head tag out of the adapter and
\* returned Again
Absorbed(r) ==
    /\ r.res = Again
    /\ r.d.adapter = SubSeq(adapter, 16 + Unwrap(HeadTag).data_size, Len(adapter))

\* the call that returned r announced a stream or the set of streams and
\* left the adapter alone
Reconciled(r) ==
    /\ r.res.kind \in {"StreamAdded", "StreamChanged", "HaveAllStreams"}
    /\ r.d.adapter = adapter

\* the head tag derives the published format of its stream, and
\* HaveAllStreams has been returned
HeadFormatSettled ==
    /\ SS(D).got_all_streams
    /\ IsSome(HeadAudioHeader) =>
          SS(D).audio = Some(AudioFormat_new(Unwrap(HeadAudioHeader), SS(D).metadata,
                                             SS(D).aac_sequence_header))
    /\ IsSome(HeadVideoHeader) =>
          SS(D).video = Some(VideoFormat_new(Unwrap(HeadVideoHeader), SS(D).metadata,
                                             SS(D).avc_sequence_header))

\* C14 as stated: for an audio or video tag whose payload is too small for
\* its codec special case (AAC with data_size < 2, H.264 with data_size < 5)
\* or whose format has no caps description, the poll that handles it
\* flushes exactly its 15 + data_size bytes and returns Again: no
\* StreamAdded, StreamChanged, HaveAllStreams or BufferForStream.
AnomaliesAbsorbed ==
    (HeadTooSmall \/ HeadWithoutCaps) => Absorbed(handle_buffer(D, None))

\* what C14 holds for: r is what the next call returns
AbsorbedAfterReconcile(r) ==
    /\ HeadWithoutCaps => Absorbed(r)
    /\ HeadTooSmall => (Absorbed(r) \/ Reconciled(r))
    /\ (HeadTooSmall /\ HeadFormatSettled) => Absorbed(r)

\* C14: format-level anomalies.  A tag whose format has no caps description
\* is flushed whole (15 + data_size bytes) by one call that returns Again.
\* A tag too small for its codec special case whose format has a caps
\* description goes through the format reconcile step first: calls that
\* return StreamAdded, StreamChanged or HaveAllStreams and flush nothing;
\* once the format is the published one and HaveAllStreams has been
\* returned, the next call flushes the tag whole and returns Again.  No
\* BufferForStream is returned for either kind of tag.
AnomaliesAbsorbedAfterReconcile ==
    AbsorbedAfterReconcile(handle_buffer(D, None))

\* an AAC tag of one byte is at the head while the setup blob is missing,
\* and the next call flushes its 16 bytes
SmallAacAbsorbed ==
    /\ HeadTooSmall
    /\ HeadWithoutCaps
    /\ IsSome(HeadAudioHeader)
    /\ Len(handle_buffer(D, None).d.adapter) = Len(adapter) - 16

(***************************************************************************)
(* Unknown tag types                                                       *)
(***************************************************************************)
\* a whole tag is at the head of the adapter and its type byte is none of
\* script, audio, video
UnknownTagAtHead ==
    /\ state = "Streaming"
    /\ res.kind /= "Panic"
    /\ get_available(adapter) >= 16
    /\ TagTypeOf(adapter[5]) = None
    /\ get_available(adapter) >= 15 + be_u24(adapter, 6)

\* C15: unknown tag types are skipped.  In Streaming state a tag whose type
\* byte is none of script, audio, video is absorbed: the call that meets it
\* flushes its 15 + data_size bytes and returns Again, and the demuxer goes
\* on with the tag behind it.
UnknownTagSkipped ==
    UnknownTagAtHead =>
        /\ handle_buffer(D, None).res = Again
        /\ handle_buffer(D, None).d.adapter
              = SubSeq(adapter, 16 + be_u24(adapter, 6), Len(adapter))

(***************************************************************************)
(* Script tags that carry no metadata                                      *)
(***************************************************************************)
\* the tag header at the head of the adapter has arrived and says script
ScriptAtHead ==
    /\ state = "Streaming"
    /\ res.kind /= "Panic"
    /\ get_available(adapter) >= 15
    /\ adapter[5] = 18

\* the payload of the script tag at the head is all there and is no
\* onMetaData record: it fails to parse or has another name
ScriptWithoutMetadata ==
    LET ds == be_u24(adapter, 6)
        p  == flavors_script_data(SubSeq(adapter, 16, 15 + ds))
    IN  /\ get_available(adapter) >= 15 + ds
        /\ (p = None \/ Unwrap(p).name /= "onMetaData")

\* the call that returned r took the script tag out of the adapter,
\* returned Again and left everything else as it was
ScriptIgnored(r) ==
    /\ r.res = Again
    /\ r.d.adapter = SubSeq(adapter, 16 + be_u24(adapter, 6), Len(adapter))
    /\ r.d.streaming_state = streaming_state
    /\ r.d.state = state

\* window is the number of bytes the demuxer wants buffered before it looks
\* at a tag at all
ScriptCases(window, r) ==
    ScriptAtHead =>
        /\ (ScriptWithoutMetadata /\ get_available(adapter) >= window)
              => ScriptIgnored(r)
        /\ (get_available(adapter) < 15 + be_u24(adapter, 6)
              \/ get_available(adapter) < window)
              => r = Ret(D, NeedMoreData)

\* C16 as stated: a script tag whose payload fails to parse or whose name is
\* not onMetaData consumes exactly 15 + data_size bytes, returns Again and
\* leaves audio, video, metadata, got_all_streams, last_position and both
\* setup blobs unchanged; with fewer than 15 + data_size bytes available the
\* call returns NeedMoreData and consumes nothing.
ScriptErrorsIgnored == ScriptCases(15, handle_buffer(D, None))

\* C16: script-tag errors are ignored, once the 16 bytes the demuxer looks
\* at are buffered.  With at least max(16, 15 + data_size) bytes available
\* the tag is consumed as stated; with fewer, an empty script tag with its
\* 15 bytes all there included, the call returns NeedMoreData and consumes
\* nothing.
ScriptErrorsIgnoredInWindow == ScriptCases(16, handle_buffer(D, None))

\* a script record named onCuePoint is at the head while an audio stream
\* with a bitrate is published, and the next call takes it out
CuePointIgnored ==
    /\ ScriptAtHead
    /\ ScriptWithoutMetadata
    /\ get_available(adapter) >= 16
    /\ adapter[16] = 4
    /\ IsSome(SS(D).audio)
    /\ IsSome(SS(D).metadata)
    /\ handle_buffer(D, None).res = Again

(***************************************************************************)
(* stop                                                                    *)
(***************************************************************************)
\* the demuxer holds nothing: no bytes, no streaming state, no position and
\* no duration
HoldsNothing ==
    /\ adapter = << >>
    /\ streaming_state = None
    /\ skipping = NoSkipping
    /\ get_position(D) = None
    /\ get_duration(D) = None

\* C17: stop resets everything, from any state.  After stop the state is
\* Stopped, the adapter holds no bytes, the streaming state is absent and
\* get_position() and get_duration() return None; the start that follows
\* begins at NeedHeader with no bytes, formats, metadata or setup blobs
\* carried over.
StopResets ==
    /\ [](state = "Stopped" => HoldsNothing)
    /\ [][(state = "Stopped" /\ state' /= "Stopped")
              => (state' = "NeedHeader" /\ HoldsNothing')]_vars

\* stopped after the host has read a file header and tags from upstream
StoppedAfterStreaming ==
    /\ state = "Stopped"
    /\ ~at_start
    /\ fed = MaxItems

(***************************************************************************)
(* Bounded buffering                                                       *)
(***************************************************************************)
\* the number of bytes a Streaming demuxer asks for: the 16 it looks at,
\* or the whole tag at the head when that is more
HeadBound ==
    IF get_available(adapter) >= 16
    THEN Max(16, 15 + be_u24(adapter, 6))
    ELSE 16

\* the bytes pushed in this step
ChunkPushed ==
    IF state' /= "Stopped" /\ Len(pending') < Len(pending)
    THEN Len(pending) - Len(pending')
    ELSE 0

\* C18: bounded buffering.  Whenever handle_buffer has returned
\* NeedMoreData, the adapter holds fewer than 9 bytes in NeedHeader state
\* and fewer than max(16, 15 + data_size) bytes in Streaming state, where
\* data_size is that of the tag at the head of the adapter; and no call
\* leaves more in the adapter than it found plus the chunk pushed, so a host
\* that pushes only after NeedMoreData never accumulates more than one tag
\* plus the pushed chunk.
BoundedBuffering ==
    /\ [](res.kind = "NeedMoreData" =>
              /\ state \in {"NeedHeader", "Streaming"}
              /\ state = "NeedHeader" => get_available(adapter) < 9
              /\ state = "Streaming" => get_available(adapter) < HeadBound)
    /\ [][get_available(adapter') <= get_available(adapter) + ChunkPushed]_vars

\* NeedMoreData in Streaming state with the 16 bytes there and the rest of
\* the tag at the head still to come
WaitingForPayload ==
    /\ res.kind = "NeedMoreData"
    /\ state = "Streaming"
    /\ get_available(adapter) >= 16
    /\ get_available(adapter) = HeadBound - 1

(***************************************************************************)
(* Sequential output                                                       *)
(***************************************************************************)
\* the tags in bytes from index i on, as the wire format lays them out:
\* type, timestamp <<extension, low 24 bits>> and payload of each whole tag
RECURSIVE TagsOf(_, _)
TagsOf(bytes, i) ==
    IF i + 14 > Len(bytes) \/ i + 14 + be_u24(bytes, i + 5) > Len(bytes)
    THEN << >>
    ELSE << [type    |-> bytes[i + 4],
             ts      |-> << bytes[i + 11], be_u24(bytes, i + 8) >>,
             payload |-> SubSeq(bytes, i + 15, i + 14 + be_u24(bytes, i + 5))] >>
         \o TagsOf(bytes, i + 15 + be_u24(bytes, i + 5))

\* the tags of the file, which begin at the header's data offset
FileTags == TagsOf(file, be_u32(file, 6) + 1)

\* the bytes of a payload that are no sample data: the codec byte, and the
\* packet header of AAC, H.264 and VP6
DroppedBytes(tag) ==
    IF tag.type = 8
    THEN IF tag.payload[1] \div 16 = 10 THEN 2 ELSE 1
    ELSE IF tag.payload[1] % 16 = 7 THEN 5
    ELSE IF tag.payload[1] % 16 \in {4, 5} THEN 2
    ELSE 1

\* e is the BufferForStream of this tag: its stream, its sample data and
\* its timestamp (pts for audio, dts for video)
IsBufferOf(e, tag) ==
    /\ e.kind = "BufferForStream"
    /\ Len(tag.payload) >= 1
    /\ e.id = (IF tag.type = 8 THEN AUDIO_STREAM_ID ELSE VIDEO_STREAM_ID)
    /\ tag.type \in {8, 9}
    /\ Unwrap(e.buffer).data
          = SubSeq(tag.payload, DroppedBytes(tag) + 1, Len(tag.payload))
    /\ LET t == IF tag.type = 8 THEN Unwrap(e.buffer).pts ELSE Unwrap(e.buffer).dts
       IN  IsSome(t) /\ IsMillis(Unwrap(t), tag.ts[1], tag.ts[2])

\* the events evs[i..] that are buffers are the buffers of some of the
\* tags tags[j..], in the tags' order, one tag each
RECURSIVE InTagOrder(_, _, _, _)
InTagOrder(evs, i, tags, j) ==
    IF i > Len(evs) THEN TRUE
    ELSE IF evs[i].kind /= "BufferForStream" THEN InTagOrder(evs, i + 1, tags, j)
    ELSE IF j > Len(tags) THEN FALSE
    ELSE IF IsBufferOf(evs[i], tags[j]) THEN InTagOrder(evs, i + 1, tags, j + 1)
    ELSE InTagOrder(evs, i, tags, j + 1)

\* the bytes this step pushes
ChunkOf == SubSeq(pending, 1, Len(pending) - Len(pending'))

\* a buffer returned in this step is the buffer of the tag at the head of
\* held, and held has all 15 + data_size bytes of it
ReturnedFromHead(held) ==
    res'.kind = "BufferForStream" =>
        /\ TagsOf(held, 1) /= << >>
        /\ IsBufferOf(res', TagsOf(held, 1)[1])

\* C19 as stated: BufferForStream events are returned in the order of their
\* tags in the input, each tag yields at most one of them, and the buffer
\* of a tag is returned only by a call at whose start the adapter held all
\* 15 + data_size bytes of that tag.
SequentialOutputHeldBefore ==
    /\ [](InTagOrder(events, 1, FileTags, 1))
    /\ [][ReturnedFromHead(adapter)]_vars

\* C19: sequential output.  The same, where the buffer of a tag is returned
\* only by a call in which the adapter, with the chunk that very call pushes
\* appended, holds all 15 + data_size bytes of the tag: a push that brings
\* the last bytes of a tag whose stream is published returns its buffer.
SequentialOutput ==
    /\ [](InTagOrder(events, 1, FileTags, 1))
    /\ [][ReturnedFromHead(adapter \o ChunkOf)]_vars

\* the buffers of three tags, audio and video, have been returned
ThreeBuffers ==
    /\ Len(FileTags) = 3
    /\ Len(SelectSeq(events, LAMBDA e : e.kind = "BufferForStream")) = 3
    /\ \E i \in 1..Len(events) : IsBufferFor(events[i], AUDIO_STREAM_ID)
    /\ \E i \in 1..Len(events) : IsBufferFor(events[i], VIDEO_STREAM_ID)

(***************************************************************************)
(* Setup blobs                                                             *)
(***************************************************************************)
\* the cached setup blob of a codec, None when there is no streaming state
CachedBlob(ss, codec) ==
    IF ss = None THEN None
    ELSE IF codec = "AAC" THEN Unwrap(ss).aac_sequence_header
    ELSE Unwrap(ss).avc_sequence_header

\* the tag at the head of held is a whole sequence-header tag of the codec
\* and blob is its setup data
IsSetupTag(held, codec, blob) ==
    /\ TagsOf(held, 1) /= << >>
    /\ LET tag == TagsOf(held, 1)[1]
       IN  /\ tag.type = (IF codec = "AAC" THEN 8 ELSE 9)
           /\ Len(tag.payload) >= (IF codec = "AAC" THEN 2 ELSE 5)
           /\ IF codec = "AAC" THEN tag.payload[1] \div 16 = 10
                               ELSE tag.payload[1] % 16 = 7
           /\ tag.payload[2] = 0
           /\ blob = Some(SubSeq(tag.payload, IF codec = "AAC" THEN 3 ELSE 6,
                                 Len(tag.payload)))

\* a step that is no stop keeps a cached blob of the codec, and changes it
\* only by consuming a sequence-header tag of that codec
BlobRetained(codec) ==
    (IsSome(CachedBlob(streaming_state, codec)) /\ state' /= "Stopped") =>
        /\ IsSome(CachedBlob(streaming_state', codec))
        /\ CachedBlob(streaming_state', codec) /= CachedBlob(streaming_state, codec)
              => /\ IsSetupTag(adapter \o ChunkOf, codec,
                               CachedBlob(streaming_state', codec))
                 /\ get_available(adapter')
                       < get_available(adapter) + Len(ChunkOf)

\* C20: setup-blob retention.  Once aac_sequence_header (avc_sequence_header)
\* is cached, it stays present after every handle_buffer call that follows
\* and changes only when a later AAC (AVC) sequence-header tag is consumed,
\* until stop; tags of other types or codecs never clear or alter it.
SetupBlobRetention ==
    [][BlobRetained("AAC") /\ BlobRetained("AVC")]_vars

(***************************************************************************)
(* Keyframe flag                                                           *)
(***************************************************************************)
\* the bytes a call would find in the adapter: what is held and what the
\* call pushes
HeldWith(buffer) == IF IsSome(buffer) THEN adapter \o Unwrap(buffer) ELSE adapter

\* the calls the host can make next: a poll, or a push of what it has read
NextBuffers ==
    {None} \cup (IF pending = << >> THEN {} ELSE {Some(pending)})

\* r is what a call returned that found held in the adapter: a video buffer
\* has the delta-unit flag exactly when the frame type in the tag's first
\* payload byte is not 1 (key frame), an audio buffer has no flag
FlaggedByFrameType(held, r) ==
    r.res.kind = "BufferForStream" =>
        LET flags == Unwrap(r.res.buffer).flags
        IN  /\ r.res.id = VIDEO_STREAM_ID =>
                  /\ held[5] = 9
                  /\ (BUFFER_FLAG_DELTA_UNIT \in flags) <=> (held[16] \div 16 /= 1)
            /\ r.res.id = AUDIO_STREAM_ID =>
                  /\ held[5] = 8
                  /\ BUFFER_FLAG_DELTA_UNIT \notin flags

\* C21: keyframe flag.  Every video BufferForStream carries the delta-unit
\* flag if and only if the frame type in the tag's data header is not Key;
\* audio buffers never carry it.
KeyframeFlag ==
    (state = "Streaming" /\ res.kind /= "Panic") =>
        \A buffer \in NextBuffers :
            FlaggedByFrameType(HeldWith(buffer), handle_buffer(D, buffer))

\* the call before returned the buffer of an inter frame, flagged as a
\* delta unit, and the next call returns the buffer of a key frame
InterFrameFlagged ==
    /\ res.kind = "BufferForStream"
    /\ res.id = VIDEO_STREAM_ID
    /\ BUFFER_FLAG_DELTA_UNIT \in Unwrap(res.buffer).flags
    /\ state = "Streaming"
    /\ get_available(adapter) >= 16
    /\ adapter[16] \div 16 = 1
    /\ handle_buffer(D, None).res.kind = "BufferForStream"
    /\ Unwrap(handle_buffer(D, None).res.buffer).flags = {}

(***************************************************************************)
(* Pixel aspect ratio                                                      *)
(***************************************************************************)
\* the values of the Number arguments called key in a script record
KeyValues(sd, key) ==
    IF sd.kind \in {"Object", "ECMAArray"}
    THEN { sd.arguments[i].val : i \in { j \in 1..Len(sd.arguments) :
               /\ sd.arguments[j].name = key
               /\ sd.arguments[j].kind = "Number" } }
    ELSE {}

\* the record has both keys, or it has none of the two or one only
HasBothKeys(sd) ==
    KeyValues(sd, "AspectRatioX") /= {} /\ KeyValues(sd, "AspectRatioY") /= {}

\* the onMetaData record at the head of the adapter, None when the head is
\* no complete script tag or no onMetaData record
HeadRecord ==
    IF IsSome(HeadTag) /\ Unwrap(HeadTag).tag_type = "Script"
    THEN LET p == flavors_script_data(
                      SubSeq(adapter, 16, 15 + Unwrap(HeadTag).data_size))
         IN  IF IsSome(p) /\ Unwrap(p).name = "onMetaData" THEN p ELSE None
    ELSE None

\* the video descriptions among the streams of a result
VideoCaps(r) ==
    { r.streams[i].caps : i \in { j \in 1..Len(r.streams) :
                                     r.streams[j].id = VIDEO_STREAM_ID } }

\* the metadata the call stored is that of the record: a ratio when the
\* record has both keys, made of their values, and none otherwise
RatioOfRecord(sd, r) ==
    LET m == SS(r.d).metadata
    IN  /\ IsSome(m)
        /\ IF HasBothKeys(sd)
           THEN /\ IsSome(Unwrap(m).video_pixel_aspect_ratio)
                /\ Unwrap(Unwrap(m).video_pixel_aspect_ratio)[1]
                       \in KeyValues(sd, "AspectRatioX")
                /\ Unwrap(Unwrap(m).video_pixel_aspect_ratio)[2]
                       \in KeyValues(sd, "AspectRatioY")
           ELSE Unwrap(m).video_pixel_aspect_ratio = None

\* the video descriptions a call returns carry a pixel-aspect-ratio exactly
\* when the metadata held after the call has a ratio of two non-zero values,
\* and then it is that ratio
RatioOnCaps(r) ==
    LET par == MetaField(SS(r.d).metadata, "video_pixel_aspect_ratio")
    IN  \A caps \in VideoCaps(r.res) :
            /\ CapsHas(caps, "pixel-aspect-ratio")
                  <=> (IsSome(par) /\ Unwrap(par)[1] /= 0 /\ Unwrap(par)[2] /= 0)
            /\ CapsHas(caps, "pixel-aspect-ratio")
                  => CapsGet(caps, "pixel-aspect-ratio") = Unwrap(par)

\* C22: pixel-aspect-ratio gating.  An onMetaData record with only one of
\* AspectRatioX and AspectRatioY yields metadata without a pixel aspect
\* ratio, so no video description built from it (StreamAdded, StreamChanged,
\* StreamsChanged) carries a pixel-aspect-ratio; the caps carry one only
\* when both keys are present and both values are non-zero.
ParGating ==
    (state = "Streaming" /\ res.kind /= "Panic") =>
        /\ IsSome(HeadRecord) =>
               RatioOfRecord(Unwrap(HeadRecord), handle_buffer(D, None))
        /\ handle_buffer(D, None).res.kind /= "Panic" =>
               RatioOnCaps(handle_buffer(D, None))

\* the published video description has a pixel-aspect-ratio, the record at
\* the head has AspectRatioX only, and the next call returns StreamsChanged
\* with a video description without pixel-aspect-ratio
LoneKeyDropsRatio ==
    /\ IsSome(HeadRecord)
    /\ KeyValues(Unwrap(HeadRecord), "AspectRatioX") /= {}
    /\ KeyValues(Unwrap(HeadRecord), "AspectRatioY") = {}
    /\ IsSome(SS(D).video)
    /\ IsSome(VideoFormat_to_caps(Unwrap(SS(D).video)))
    /\ CapsHas(Unwrap(VideoFormat_to_caps(Unwrap(SS(D).video))),
               "pixel-aspect-ratio")
    /\ handle_buffer(D, None).res.kind = "StreamsChanged"
    /\ VideoCaps(handle_buffer(D, None).res) /= {}
    /\ \A caps \in VideoCaps(handle_buffer(D, None).res) :
           ~CapsHas(caps, "pixel-aspect-ratio")

(***************************************************************************)
(* Quiescence                                                              *)
(***************************************************************************)
\* a poll in this state returns Again and leaves the demuxer as it is, so
\* every poll after it does the same for as long as nothing is pushed
PollsAgainForever ==
    /\ handle_buffer(D, None).res.kind = "Again"
    /\ handle_buffer(D, None).d = D

\* C23: quiescence.  From every state reachable after start (NeedHeader,
\* Skipping with any skip_left, Streaming), a host that pushes nothing more
\* and keeps calling handle_buffer(None) gets NeedMoreData after finitely
\* many calls; it does not get Again forever while the adapter is empty.
\* handle_buffer is a function of the demuxer alone, so the polls go on
\* for ever exactly when one of them returns Again and changes nothing.
Quiescence ==
    (state /= "Stopped" /\ res.kind /= "Panic") => ~PollsAgainForever

(***************************************************************************)
(* Tag consumption                                                         *)
(***************************************************************************)
\* the bytes a call that returned r took out of the adapter
Removed(r) == get_available(adapter) - get_available(r.d.adapter)

\* with the 16-byte window of a tag of at least min_size payload bytes at
\* the head, a call that returns removes nothing (it asks for more data or
\* returns a stream event) or the whole tag, 15 + data_size bytes
WholeTagRemoved(min_size) ==
    (IsSome(FrontTag) /\ Unwrap(FrontTag).data_size >= min_size
       /\ handle_buffer(D, None).res.kind /= "Panic") =>
        Removed(handle_buffer(D, None)) \in {0, 15 + Unwrap(FrontTag).data_size}

\* C24: byte-exact tag consumption.  In Streaming state, from the poll that
\* first dispatches a tag to the poll that finishes it, the demuxer removes
\* exactly 15 + data_size bytes from the adapter, for every tag type, codec
\* and data_size including 0 and 1, so the next 16-byte window starts at the
\* next tag's previous-tag-size field.
ByteExactConsumption == WholeTagRemoved(0)

(***************************************************************************)
(* Adapter requests                                                        *)
(***************************************************************************)
\* the tag at the head of the adapter is one a parser rejects, where the
\* code stops at unimplemented!(): an unknown tag type, an audio or video
\* data header or an AAC or AVC packet header that does not parse
RejectedByParser ==
    LET th == flavors_tag_header(peek_into(adapter, 16), 5)
        ds == be_u24(adapter, 6)
    IN  \/ th = None
        \/ /\ Unwrap(th).tag_type = "Audio"
           /\ \/ flavors_audio_data_header(adapter[16]) = None
              \/ /\ adapter[16] \div 16 = 10
                 /\ ds >= 2
                 /\ get_available(adapter) >= 15 + ds
                 /\ flavors_aac_audio_packet_header(adapter[17]) = None
        \/ /\ Unwrap(th).tag_type = "Video"
           /\ \/ flavors_video_data_header(adapter[16]) = None
              \/ /\ adapter[16] % 16 = 7
                 /\ ds >= 5
                 /\ get_available(adapter) >= 15 + ds
                 /\ flavors_avc_video_packet_header(peek_into(adapter, 20), 17) = None

\* a call that does not return has stopped at a rejected tag, so at no
\* flush, peek_into or get_buffer that asks for more than the adapter holds
\* or for a negative number of bytes
RequestsWithin(min_size) ==
    (/\ state = "Streaming"
     /\ res.kind /= "Panic"
     /\ get_available(adapter) >= 16
     /\ be_u24(adapter, 6) >= min_size
     /\ handle_buffer(D, None).res.kind = "Panic")
        => RejectedByParser

\* C25: no adapter over-read.  In every reachable state and for every tag
\* header value, each flush, peek_into and get_buffer of the demuxer asks
\* for at most the bytes available and for a non-negative length
\* (data_size - 1 - offset, data_size - 2 and data_size - 5 never
\* underflow), so no unwrap() of an adapter result fails.
NoOverRead == RequestsWithin(0)

(***************************************************************************)
(* Header resync                                                           *)
(***************************************************************************)
\* the positions of held where a 9-byte file header starts: the signature
\* "FLV" with six more bytes behind it
HeaderPositions(held) ==
    { i \in 1..(Len(held) - 8) :
          held[i] = 70 /\ held[i + 1] = 76 /\ held[i + 2] = 86 }

FirstHeader(held) ==
    CHOOSE i \in HeaderPositions(held) : \A j \in HeaderPositions(held) : i <= j

\* r is what a call in NeedHeader state returned that found held in the
\* adapter
Resynced(held, r) ==
    IF HeaderPositions(held) /= {}
    THEN LET i == FirstHeader(held)
         IN  /\ r.res = Again
             /\ r.d.state = "Skipping"
             /\ r.d.adapter = SubSeq(held, i + 9, Len(held))
             /\ r.d.skipping.audio = ((held[i + 4] \div 4) % 2 = 1)
             /\ r.d.skipping.video = (held[i + 4] % 2 = 1)
    ELSE /\ r.res = NeedMoreData
         /\ r.d.state = "NeedHeader"
         /\ get_available(r.d.adapter) <= 8
         /\ r.d.adapter = SubSeq(held, Len(held) - Min(8, Len(held)) + 1, Len(held))

\* C26: header resync.  In NeedHeader state a valid 9-byte FLV header
\* behind any number of garbage bytes is found at its first valid position:
\* the garbage bytes and the 9 header bytes are consumed and the call
\* returns Again with state Skipping and the header's audio and video
\* flags; while no header is found the call returns NeedMoreData and leaves
\* at most 8 bytes buffered.
HeaderResync ==
    state = "NeedHeader" =>
        \A buffer \in NextBuffers :
            Resynced(HeldWith(buffer), handle_buffer(D, buffer))

\* garbage is buffered, the host holds a file header, and the push of it
\* finds the header behind the garbage
HeaderBehindGarbage ==
    /\ state = "NeedHeader"
    /\ adapter /= << >>
    /\ pending /= << >>
    /\ HeaderPositions(adapter \o pending) /= {}
    /\ FirstHeader(adapter \o pending) = Len(adapter) + 1
    /\ handle_buffer(D, Some(pending)).d.state = "Skipping"
    /\ handle_buffer(D, Some(pending)).d.skipping.audio

(***************************************************************************)
(* Stream events                                                           *)
(***************************************************************************)
IsStreamEvent(r) == r.kind \in {"StreamAdded", "StreamChanged", "HaveAllStreams"}

\* r is what a call returned that found held in the adapter: after a stream
\* event the adapter is as the call found it and the demuxer is streaming,
\* so the next poll looks at the same tag
NothingConsumed(held, r) ==
    IsStreamEvent(r.res) => (r.d.adapter = held /\ r.d.state = "Streaming")

\* C27: stream events consume no input.  Whenever handle_buffer returns
\* StreamAdded, StreamChanged or HaveAllStreams, the adapter holds what it
\* held before the call and what the call pushed, so the same tag is
\* dispatched again on the next poll and its payload is not lost.
EventsConsumeNothing ==
    (state /= "Stopped" /\ res.kind /= "Panic") =>
        \A buffer \in NextBuffers :
            NothingConsumed(HeldWith(buffer), handle_buffer(D, buffer))

\* the call before returned HaveAllStreams for the tag at the head, which is
\* still whole in the adapter, and the next poll returns its payload
PayloadAfterEvents ==
    /\ res.kind = "HaveAllStreams"
    /\ IsSome(HeadTag)
    /\ Unwrap(HeadTag).data_size >= 2
    /\ handle_buffer(D, None).res.kind = "BufferForStream"
    /\ Unwrap(handle_buffer(D, None).res.buffer).data
           = SubSeq(adapter, 17, 15 + Unwrap(HeadTag).data_size)

(***************************************************************************)
(* Published formats                                                       *)
(***************************************************************************)
\* the published formats of a streaming state have caps
Describable(ss) ==
    /\ IsSome(ss.audio) => IsSome(AudioFormat_to_caps(Unwrap(ss.audio)))
    /\ IsSome(ss.video) => IsSome(VideoFormat_to_caps(Unwrap(ss.video)))

\* C28: published formats always have caps.  In every reachable state, if
\* streaming_state.audio (video) is Some, a caps description can be made
\* from it, so every StreamsChanged the script-tag handler returns carries
\* at least one stream and never an empty list.
PublishedHaveCaps ==
    /\ IsSome(streaming_state) => Describable(SS(D))
    /\ (state /= "Stopped" /\ res.kind /= "Panic") =>
           \A buffer \in NextBuffers :
               handle_buffer(D, buffer).res.kind = "StreamsChanged"
                   => Len(handle_buffer(D, buffer).res.streams) >= 1

\* an audio format is published and the script tag before changed its
\* bitrate: the call returned StreamsChanged with the audio description
\* made from the published format
AudioStreamsChanged ==
    /\ res.kind = "StreamsChanged"
    /\ Len(res.streams) = 1
    /\ IsSome(SS(D).audio)
    /\ res.streams[1].id = AUDIO_STREAM_ID
    /\ res.streams[1].caps = Unwrap(AudioFormat_to_caps(Unwrap(SS(D).audio)))

(***************************************************************************)
(* StreamAdded                                                             *)
(***************************************************************************)
\* the places of the session's events where StreamAdded of id was returned
AddedAt(id) == { i \in 1..Len(events) : IsAddedFor(events[i], id) }

\* C29: StreamAdded is returned at most once per stream id between a start
\* and the stop that follows: after StreamAdded of the audio (video) stream
\* every later change of its description is returned as StreamChanged or
\* StreamsChanged, never as a second StreamAdded, for any sequence of tags
\* and codecs.
StreamAddedOnce ==
    /\ Cardinality(AddedAt(AUDIO_STREAM_ID)) <= 1
    /\ Cardinality(AddedAt(VIDEO_STREAM_ID)) <= 1

(***************************************************************************)
(* The stream set at HaveAllStreams                                        *)
(***************************************************************************)
\* no StreamAdded among the session's events behind a HaveAllStreams
NoneAddedAfterAll ==
    \A i \in 1..Len(events) :
        events[i].kind = "HaveAllStreams" =>
            \A j \in (i + 1)..Len(events) : events[j].kind /= "StreamAdded"

\* once got_all_streams is set, the streams the header advertised have a
\* published format
AdvertisedPublished ==
    (IsSome(streaming_state) /\ SS(D).got_all_streams) =>
        /\ SS(D).expect_audio => IsSome(SS(D).audio)
        /\ SS(D).expect_video => IsSome(SS(D).video)

\* C30: the stream set is complete at HaveAllStreams.  After HaveAllStreams
\* has been returned in a session, no StreamAdded is returned for the rest
\* of the session, and in every later state of the session every stream the
\* header advertised still has a published format.
StreamSetComplete == NoneAddedAfterAll /\ AdvertisedPublished

=============================================================================
